---- MODULE Spec2Model ----
(***************************************************************************)
(* A model of parts of the vello repository:                               *)
(*   - the render graph of vello/src/graph.rs (Gallery, Painting, Painter, *)
(*     Generation, the reclamation channel) together with the top-level    *)
(*     cache of Vello, whose render routine lives in runner.rs;            *)
(*   - the host program of crates/atomic_lookback_prefix/src/main.rs (the  *)
(*     overflow check, the dispatch, the verification loop);               *)
(*   - the decoupled-lookback scan that the dispatched shader runs.        *)
(* and of the Planner of src/render.rs with the engine that runs its       *)
(* Recording, the pipeline cache file and block_on_wgpu of src/util.rs.    *)
(***************************************************************************)
EXTENDS Integers, Sequences, FiniteSets, TLC

\* ------------------------------------------------------------------------
\* Bounds of the model
\* ------------------------------------------------------------------------

\* Gallery::create_painting is called at most this many times (all galleries).
MaxPaintings == 2

\* The application holds at most this many Painting handles (originals and
\* clones, of all Paintings together) at a time.
MaxHandles == 2

\* The threads that call PaintingId::next and GalleryId::next, and the calls
\* they make of each.
MaxThreads == 2
MaxIssued == 3

\* PATHTAG_REDUCE_WG and PATH_COARSE_WG are 2 ^ LogWG (8 in shaders.rs); the
\* scenes have at most this many path tags and bytes of path data; the
\* application renders its scene at most MaxRuns times.
LogWG == 1
MaxPathTags == 9
MaxPathData == 2
MaxRuns == 2

\* The host program sums inputs of at most this many elements.
MaxInputLen == 3

\* workgroup_size (256 in main.rs) and num_workgroups (10_000 in main.rs),
\* scaled down.
workgroup_size == 2
num_workgroups == 4

\* Generation is Wrapping<u32>; the model counts modulo this number, a
\* scaled-down stand-in for 2^32 so that a wrap-around is within reach.
GenerationModulus == 2

VARIABLES
    GALLERY_IDS,    \* static GALLERY_IDS: AtomicU64 (graph.rs:332)
    PAINTING_IDS,   \* static PAINTING_IDS: AtomicU64 (graph.rs:312)
    galleries,      \* GalleryId -> Gallery {generation, paintings, incoming_deallocations}
    inner,          \* PaintingId -> PaintingInner {gallery_id}
    held,           \* PaintingId -> number of Painting handles the application holds
    painter,        \* GalleryId -> the live Painter borrowed from it (<<>> or <<p>>)
    gcframe,        \* GalleryId -> the running gc() call's frame (<<>> or <<f>>)
    ret,            \* the latest paint() or render call: its arguments and result
    cache,          \* Vello.cache: PaintingId -> entry
    build,          \* main.rs: the build profile, "debug" or "release"
    input_data,     \* main.rs: input_data
    expected_total, \* main.rs: expected_total
    hpc,            \* main.rs: where run() is
    tpc,            \* scan: tile -> where the workgroup is
    aggregates,     \* scan: aggregate_buffer
    prefixes,       \* scan: inclusive_prefix_buffer
    look,           \* scan: tile -> the predecessor its lookback inspects
    excl,           \* scan: tile -> the exclusive prefix folded so far
    output,         \* scan: output_buffer
    ipc,            \* thread -> where it is in PaintingId::next / GalleryId::next
    issued,         \* counter -> the ids fetch_add returned, in the order of the increments
    scene_data,     \* render.rs: the scene given to render()
    PROXY_IDS,      \* engine: the next fresh proxy id
    planned,        \* render.rs: what render() returned (<<>> or <<r>>)
    elog,           \* engine: the commands run so far
    memory,         \* engine: proxy id -> what the proxy holds
    eresult,        \* engine: "", "resolved" or "binding_layout_error"
    earlier,        \* engine: the finished runs, each with its Recording and output
    pipeline_cache_directory, \* util.rs: RenderContext.pipeline_cache_directory (<<>> or <<dir>>)
    files,          \* the file system: path -> what the file holds, if it exists
    devices,        \* util.rs: RenderContext.devices
    store,          \* util.rs: the running store_pipeline_cache call (<<>> or <<frame>>)
    uret,           \* util.rs: the latest new_device or store_pipeline_cache call and its result
    waiter,         \* the program that waits: "" (none), "headless" or "atomic_lookback_prefix"
    wpc,            \* where the waiting program is
    work,           \* the device: what is left to do before the mapping callback sends
    wlog            \* the polls of the wait so far, of the future and of the device

gvars == <<GALLERY_IDS, PAINTING_IDS, galleries, inner, held, painter,
           gcframe, ret, cache>>
hvars == <<build, input_data, expected_total, hpc>>
svars == <<tpc, aggregates, prefixes, look, excl, output>>
pvars == <<scene_data, PROXY_IDS, planned, elog, memory, eresult, earlier>>
cvars == <<pipeline_cache_directory, files, devices, store, uret>>
wvars == <<waiter, wpc, work, wlog>>
uvars == <<cvars, wvars>>
ovars == <<ipc, issued, pvars, uvars>>
vars == <<gvars, hvars, svars, ovars>>

\* ------------------------------------------------------------------------
\* graph.rs: Generation
\* ------------------------------------------------------------------------

\* Generation::default(): Wrapping(0).
Generation_default == 0

\* Generation::nudge: self.0 += 1 on a wrapping counter.
nudge(gen) == (gen + 1) % GenerationModulus

\* ------------------------------------------------------------------------
\* graph.rs: PaintingSource
\* ------------------------------------------------------------------------

\* The images (and scene contents) an application assigns.
Images == {"img"}

Image(image) == [kind |-> "Image", image |-> image, paintings |-> {}]
Canvas(scene, paintings) == [kind |-> "Canvas", image |-> scene, paintings |-> paintings]
Blur(from) == [kind |-> "Blur", image |-> "", paintings |-> {from}]

\* The Painting handles a source owns: Blur(Painting), Canvas.paintings.
Embedded(source) == source.paintings

\* ------------------------------------------------------------------------
\* graph.rs: Painting handles (Arc<PaintingInner>) and their Drop
\* ------------------------------------------------------------------------

Galleries == DOMAIN galleries
Paintings == DOMAIN inner

\* The number of sources in all galleries' maps that own a handle of p.
InMaps(gs, p) ==
    Cardinality({ge \in {<<g, e>> : g \in DOMAIN gs, e \in Paintings} :
                    /\ ge[2] \in DOMAIN gs[ge[1]].paintings
                    /\ p \in Embedded(gs[ge[1]].paintings[ge[2]].source)})

\* Arc::strong_count of PaintingInner p when the application holds h handles
\* and the galleries are gs.
Strong(p, h, gs) == h[p] + InMaps(gs, p)

\* A Drop that runs for every handle rather than for the last one.
Released_with_any_handle(h, gs) ==
    {p \in Paintings : Strong(p, h, gs) < Strong(p, held, galleries)}

\* The PaintingInner values whose last handle goes away in the step to (h, gs).
Released(h, gs) ==
    {p \in Paintings : /\ Strong(p, held, galleries) > 0
                       /\ Strong(p, h, gs) = 0}

\* A Drop that sends nothing: the drop notification is what reclamation
\* rests on.
PaintingInner_drop_unsent(gs, p) == gs

\* A Drop that, when its own gallery is gone, hands the id to the galleries
\* that are left.
PaintingInner_drop_rerouted(gs, p) ==
    IF inner[p].gallery_id \in DOMAIN gs
    THEN [gs EXCEPT ![inner[p].gallery_id].incoming_deallocations = Append(@, p)]
    ELSE [g \in DOMAIN gs |-> [gs[g] EXCEPT !.incoming_deallocations = Append(@, p)]]

\* Drop for PaintingInner: self.deallocator.send(self.id); the result is
\* ignored, so nothing happens when the gallery (the receiver) is gone.
PaintingInner_drop(gs, p) ==
    IF inner[p].gallery_id \in DOMAIN gs
    THEN [gs EXCEPT ![inner[p].gallery_id].incoming_deallocations = Append(@, p)]
    ELSE gs

\* The drops of several PaintingInner values, in the order given.
RECURSIVE DropAll(_, _)
DropAll(gs, order) ==
    IF order = <<>> THEN gs
    ELSE DropAll(PaintingInner_drop(gs, Head(order)), Tail(order))

\* The orders in which a set of values can be dropped (a HashMap's values
\* drop in an unspecified order).
Orders(S) == {o \in [1..Cardinality(S) -> S] : \A i, j \in 1..Cardinality(S) : i # j => o[i] # o[j]}

\* ------------------------------------------------------------------------
\* graph.rs: Gallery
\* ------------------------------------------------------------------------

\* A gallery that keeps no sender of its channel.
new_inner_without_sender ==
    [generation |-> Generation_default,
     paintings |-> << >>,
     deallocator |-> 0,
     incoming_deallocations |-> << >>]

\* Gallery::new_inner: a fresh generation, an empty map, and the two ends of
\* a new channel: `deallocator` is the number of senders the gallery itself
\* stores (tx), `incoming_deallocations` what the receiver (rx) has waiting.
new_inner == [generation |-> Generation_default,
              paintings |-> << >>,
              deallocator |-> 1,
              incoming_deallocations |-> << >>]

\* The gallery is not mutably borrowed: no Painter of it is alive and no
\* gc() of it is running.
Idle(g) == painter[g] = << >> /\ gcframe[g] = << >>

\* ret when the latest call was neither paint() nor a render request.
NoCall == [op |-> "", gallery |-> 0, painting |-> 0, some |-> FALSE, ran |-> {},
           order |-> << >>]

\* The number of Painting handles the application holds.
RECURSIVE Sum(_, _)
Sum(f, S) == IF S = {} THEN 0
             ELSE LET x == CHOOSE y \in S : TRUE IN f[x] + Sum(f, S \ {x})
Handles == Sum(held, DOMAIN held)

\* Gallery::create_painting: a new PaintingInner with the next PaintingId and
\* this gallery's id; the map is not touched (the Painting starts Unbound).
create_painting(g) ==
    /\ Idle(g)
    /\ PAINTING_IDS < MaxPaintings
    /\ Handles < MaxHandles
    /\ PAINTING_IDS' = PAINTING_IDS + 1
    /\ inner' = (PAINTING_IDS :> [gallery_id |-> g]) @@ inner
    /\ held' = (PAINTING_IDS :> 1) @@ held
    /\ ret' = NoCall
    /\ UNCHANGED <<hvars, svars, ovars>>
    /\ UNCHANGED <<GALLERY_IDS, galleries, painter, gcframe, cache>>

\* Painting::clone.
Painting_clone(p) ==
    /\ held[p] >= 1
    /\ Handles < MaxHandles
    /\ held' = [held EXCEPT ![p] = @ + 1]
    /\ ret' = NoCall
    /\ UNCHANGED <<hvars, svars, ovars>>
    /\ UNCHANGED <<GALLERY_IDS, PAINTING_IDS, galleries, inner, painter,
                   gcframe, cache>>

\* drop(Painting) by the application, from any thread.  `ret` records a
\* send that returned Err (the receiver is gone), which the code ignores.
Painting_drop(p) ==
    /\ held[p] >= 1
    /\ LET h == [held EXCEPT ![p] = @ - 1] IN
        /\ held' = h
        /\ \E order \in Orders(Released(h, galleries)) :
              galleries' = DropAll(galleries, order)
        /\ ret' = IF \E q \in Released(h, galleries) : inner[q].gallery_id \notin Galleries
                  THEN [NoCall EXCEPT !.op = "send_failed", !.painting = p]
                  ELSE NoCall
    /\ UNCHANGED <<hvars, svars, ovars>>
    /\ UNCHANGED <<GALLERY_IDS, PAINTING_IDS, inner, painter, gcframe, cache>>

\* paint() without the comparison of gallery ids.
paint_unchecked(g, p) ==
    /\ Idle(g)
    /\ held[p] >= 1
    /\ galleries' = [galleries EXCEPT ![g].generation = nudge(@)]
    /\ painter' = [painter EXCEPT ![g] =
                      <<[painting |-> p, before |-> galleries[g].generation]>>]
    /\ ret' = [NoCall EXCEPT !.op = "paint", !.gallery = g, !.painting = p,
                                !.some = TRUE]
    /\ UNCHANGED <<hvars, svars, ovars>>
    /\ UNCHANGED <<GALLERY_IDS, PAINTING_IDS, inner, held, gcframe, cache>>

\* paint() that leaves the gallery's generation alone.
paint_without_nudge(g, p) ==
    /\ Idle(g)
    /\ held[p] >= 1
    /\ IF inner[p].gallery_id # g
       THEN /\ ret' = [NoCall EXCEPT !.op = "paint", !.gallery = g, !.painting = p]
            /\ UNCHANGED <<galleries, painter>>
       ELSE /\ painter' = [painter EXCEPT ![g] =
                              <<[painting |-> p, before |-> galleries[g].generation]>>]
            /\ ret' = [NoCall EXCEPT !.op = "paint", !.gallery = g, !.painting = p,
                                        !.some = TRUE]
            /\ UNCHANGED galleries
    /\ UNCHANGED <<hvars, svars, ovars>>
    /\ UNCHANGED <<GALLERY_IDS, PAINTING_IDS, inner, held, gcframe, cache>>

\* Gallery::paint: None for a Painting of another gallery; otherwise the
\* generation is nudged and a Painter borrowing the gallery is returned.  The
\* Painter's field `before` is not in the code: it remembers the generation
\* paint() found, for the properties below.
paint(g, p) ==
    /\ Idle(g)
    /\ held[p] >= 1
    /\ IF inner[p].gallery_id # g
       THEN /\ ret' = [NoCall EXCEPT !.op = "paint", !.gallery = g, !.painting = p]
            /\ UNCHANGED <<galleries, painter>>
       ELSE /\ galleries' = [galleries EXCEPT ![g].generation = nudge(@)]
            /\ painter' = [painter EXCEPT ![g] =
                              <<[painting |-> p, before |-> galleries[g].generation]>>]
            /\ ret' = [NoCall EXCEPT !.op = "paint", !.gallery = g, !.painting = p,
                                        !.some = TRUE]
    /\ UNCHANGED <<hvars, svars, ovars>>
    /\ UNCHANGED <<GALLERY_IDS, PAINTING_IDS, inner, held, gcframe, cache>>

\* An insert that keeps the source of an occupied entry.
insert_keeping_source(gal, painting, new_source) ==
    IF painting \in DOMAIN gal.paintings
    THEN [gal EXCEPT !.paintings[painting].generation = nudge(@)]
    ELSE [gal EXCEPT !.paintings =
              (painting :> [source |-> new_source, generation |-> Generation_default]) @@ @]

\* Painter::insert on the gallery value gal: an occupied entry gets the new
\* source and its own generation nudged, a vacant one is inserted with a
\* default generation.
insert(gal, painting, new_source) ==
    IF painting \in DOMAIN gal.paintings
    THEN [gal EXCEPT !.paintings[painting] =
              [source |-> new_source, generation |-> nudge(@.generation)]]
    ELSE [gal EXCEPT !.paintings =
              (painting :> [source |-> new_source, generation |-> Generation_default]) @@ @]

\* A terminal call of the Painter of g: insert, then the replaced source and
\* the Painter are dropped.  h is the application's handles after the
\* arguments were moved into the call.
Assign(g, new_source, h) ==
    /\ painter[g] # << >>
    /\ LET gs == [galleries EXCEPT ![g] = insert(@, painter[g][1].painting, new_source)] IN
          \E order \in Orders(Released(h, gs)) : galleries' = DropAll(gs, order)
    /\ held' = h
    /\ painter' = [painter EXCEPT ![g] = << >>]
    /\ cache' = [q \in DOMAIN cache |->
                    IF q = painter[g][1].painting
                    THEN [cache[q] EXCEPT !.repainted = TRUE] ELSE cache[q]]
    /\ ret' = NoCall
    /\ UNCHANGED <<hvars, svars, ovars>>
    /\ UNCHANGED <<GALLERY_IDS, PAINTING_IDS, inner, gcframe>>

\* Painter::as_image.
as_image(g, image) == Assign(g, Image(image), held)

\* Painter::as_scene with a Canvas into which the application moved one
\* handle of each Painting of `paintings` (Canvas::new_image, draw_painting,
\* override_image).
as_scene(g, scene, paintings) ==
    /\ \A p \in paintings : held[p] >= 1
    /\ Assign(g, Canvas(scene, paintings),
              [p \in DOMAIN held |-> IF p \in paintings THEN held[p] - 1 ELSE held[p]])

\* Painter::as_blur: the handle `from` is moved into the source.
as_blur(g, from) ==
    /\ held[from] >= 1
    /\ Assign(g, Blur(from), [held EXCEPT ![from] = @ - 1])

\* A Painter dropped without a terminal call.
Painter_drop(g) ==
    /\ painter[g] # << >>
    /\ painter' = [painter EXCEPT ![g] = << >>]
    /\ ret' = NoCall
    /\ UNCHANGED <<hvars, svars, ovars>>
    /\ UNCHANGED <<GALLERY_IDS, PAINTING_IDS, galleries, inner, held,
                   gcframe, cache>>

\* Gallery::gc, entry: made_change = false.  The other fields of the frame
\* are not in the code: the ids received so far, the Paintings that had no
\* handle left when gc() started, and the generation, the map and the ids
\* waiting in the channel that gc() found.
gc_begin(g) ==
    /\ Idle(g)
    /\ gcframe' = [gcframe EXCEPT ![g] =
           <<[made_change |-> FALSE,
              drained |-> {},
              released |-> {p \in Paintings : Strong(p, held, galleries) = 0},
              generation |-> galleries[g].generation,
              paintings |-> galleries[g].paintings,
              queued |-> {galleries[g].incoming_deallocations[i] :
                             i \in DOMAIN galleries[g].incoming_deallocations}]>>]
    /\ ret' = NoCall
    /\ UNCHANGED <<hvars, svars, ovars>>
    /\ UNCHANGED <<GALLERY_IDS, PAINTING_IDS, galleries, inner, held,
                   painter, cache>>

\* A removal that leaves the map as it is.
remove_nothing(m, k) == m

\* HashMap::remove.
remove(m, k) == [x \in DOMAIN m \ {k} |-> m[x]]

\* The senders of gallery g's channel that are alive: the one the gallery
\* stores and the one of every PaintingInner created for it and not dropped.
Senders(gs, g) ==
    gs[g].deallocator
        + Cardinality({p \in Paintings : /\ inner[p].gallery_id = g
                                         /\ Strong(p, held, gs) > 0})

\* mpsc::Receiver::try_recv: the oldest id waiting; Disconnected when nothing
\* waits and no sender is left; Empty otherwise.
try_recv(gs, g) ==
    IF gs[g].incoming_deallocations # << >>
    THEN [result |-> "Ok", id |-> Head(gs[g].incoming_deallocations)]
    ELSE IF Senders(gs, g) = 0
    THEN [result |-> "Disconnected", id |-> 0]
    ELSE [result |-> "Empty", id |-> 0]

\* A gc() that nudges the generation whether or not it removed anything.
gc_loop_nudging_always(g) ==
    /\ gcframe[g] # << >>
    /\ LET f == gcframe[g][1]
           gal == galleries[g] IN
       IF gal.incoming_deallocations = << >>
       THEN /\ galleries' = [galleries EXCEPT ![g].generation = nudge(@)]
            /\ gcframe' = [gcframe EXCEPT ![g] = << >>]
       ELSE LET dealloc == Head(gal.incoming_deallocations)
                gs == [galleries EXCEPT
                          ![g].incoming_deallocations = Tail(@),
                          ![g].paintings = remove(@, dealloc)] IN
            /\ \E order \in Orders(Released(held, gs)) :
                  galleries' = DropAll(gs, order)
            /\ gcframe' = [gcframe EXCEPT ![g] =
                   <<[f EXCEPT !.made_change = TRUE, !.drained = @ \cup {dealloc}]>>]
    /\ ret' = NoCall
    /\ UNCHANGED <<hvars, svars, ovars>>
    /\ UNCHANGED <<GALLERY_IDS, PAINTING_IDS, inner, held, painter, cache>>

\* A gc() that receives only the ids that were waiting when it started.
gc_loop_of_waiting(g) ==
    /\ gcframe[g] # << >>
    /\ LET f == gcframe[g][1]
           gal == galleries[g] IN
       IF gal.incoming_deallocations = << >>
              \/ Head(gal.incoming_deallocations) \notin f.queued
       THEN /\ galleries' = [galleries EXCEPT ![g].generation =
                                IF f.made_change THEN nudge(@) ELSE @]
            /\ gcframe' = [gcframe EXCEPT ![g] = << >>]
       ELSE LET dealloc == Head(gal.incoming_deallocations)
                gs == [galleries EXCEPT
                          ![g].incoming_deallocations = Tail(@),
                          ![g].paintings = remove(@, dealloc)] IN
            /\ \E order \in Orders(Released(held, gs)) :
                  galleries' = DropAll(gs, order)
            /\ gcframe' = [gcframe EXCEPT ![g] =
                   <<[f EXCEPT !.made_change = TRUE, !.drained = @ \cup {dealloc}]>>]
    /\ ret' = NoCall
    /\ UNCHANGED <<hvars, svars, ovars>>
    /\ UNCHANGED <<GALLERY_IDS, PAINTING_IDS, inner, held, painter, cache>>

\* Gallery::gc, one iteration of the loop: try_recv gives Empty (break, then
\* nudge when made_change), an id (remove it, made_change = true) or
\* Disconnected (unreachable!: a panic, which ends the call).  The removed
\* source is dropped, which may send further ids.
gc_loop(g) ==
    /\ gcframe[g] # << >>
    /\ LET f == gcframe[g][1]
           r == try_recv(galleries, g) IN
       IF r.result = "Empty"
       THEN /\ galleries' = [galleries EXCEPT ![g].generation =
                                IF f.made_change THEN nudge(@) ELSE @]
            /\ gcframe' = [gcframe EXCEPT ![g] = << >>]
            /\ ret' = NoCall
       ELSE IF r.result = "Disconnected"
       THEN /\ gcframe' = [gcframe EXCEPT ![g] = << >>]
            /\ ret' = [NoCall EXCEPT !.op = "unreachable", !.gallery = g]
            /\ UNCHANGED galleries
       ELSE LET dealloc == r.id
                gs == [galleries EXCEPT
                          ![g].incoming_deallocations = Tail(@),
                          ![g].paintings = remove(@, dealloc)] IN
            /\ \E order \in Orders(Released(held, gs)) :
                  galleries' = DropAll(gs, order)
            /\ gcframe' = [gcframe EXCEPT ![g] =
                   <<[f EXCEPT !.made_change = TRUE, !.drained = @ \cup {dealloc}]>>]
            /\ ret' = NoCall
    /\ UNCHANGED <<hvars, svars, ovars>>
    /\ UNCHANGED <<GALLERY_IDS, PAINTING_IDS, inner, held, painter, cache>>

\* drop(Gallery), which nothing borrows: the receiver goes first, then the
\* gallery's sender, then the map with its sources (the fields drop in the
\* order of their declaration).  A source's handles that were the last ones
\* send their ids: to this gallery in vain, to another gallery's channel.
Gallery_drop(g) ==
    /\ Idle(g)
    /\ LET rest == [x \in DOMAIN galleries \ {g} |-> galleries[x]] IN
          \E order \in Orders(Released(held, rest)) :
              galleries' = DropAll(rest, order)
    /\ ret' = NoCall
    /\ UNCHANGED <<hvars, svars, ovars>>
    /\ UNCHANGED <<GALLERY_IDS, PAINTING_IDS, inner, held, painter, gcframe, cache>>

\* ------------------------------------------------------------------------
\* Vello's top-level cache and the render request (runner.rs)
\* ------------------------------------------------------------------------

\* A validity test that accepts any entry.
Valid_any_entry(g, p) == p \in DOMAIN cache

\* A cache entry is valid iff its generation equals the gallery's.
Valid(g, p) ==
    /\ p \in DOMAIN cache
    /\ cache[p].generation = galleries[g].generation

\* The Paintings that q's source depends on; none for a Painting without a
\* source.
Dependencies(g, q) ==
    IF q \in DOMAIN galleries[g].paintings
    THEN Embedded(galleries[g].paintings[q].source)
    ELSE {}

\* The Paintings reachable from p through sources, p included.
RECURSIVE Reach(_, _, _)
Reach(g, todo, seen) ==
    IF todo = {} THEN seen
    ELSE LET q == CHOOSE x \in todo : TRUE
             new == Dependencies(g, q) \ (seen \cup {q}) IN
         Reach(g, (todo \ {q}) \cup new, seen \cup {q})

\* No Painting reachable from p depends on itself.
Acyclic(g, p) ==
    \A q \in Reach(g, {p}, {}) :
        q \notin Reach(g, Dependencies(g, q), {})

\* The Paintings a render request for p runs the Planner (or the blur) for:
\* none when p's entry is valid, otherwise p after its dependencies.
RECURSIVE Resolve(_, _)
Resolve(g, p) ==
    IF Valid(g, p) THEN {}
    ELSE {p} \cup UNION {Resolve(g, d) : d \in Dependencies(g, p)}

\* Every Painting that p's texture is made from has a source.  The spec does
\* not say what a request does otherwise; the requests of the model are made
\* for Paintings that can be resolved.
AllBound(g, p) == Reach(g, {p}, {}) \subseteq DOMAIN galleries[g].paintings

\* The elements of a sequence.
Range(seq) == {seq[i] : i \in DOMAIN seq}

\* Dependents before their dependencies.
RECURSIVE ResolveSeqs_dependents_first(_, _, _)
ResolveSeqs_dependents_first(g, p, acc) ==
    IF Valid(g, p) \/ p \in Range(acc) THEN {acc}
    ELSE LET deps == CHOOSE o \in Orders(Dependencies(g, p)) : TRUE
             F[i \in 0 .. Len(deps)] ==
                 IF i = 0 THEN Append(acc, p)
                 ELSE CHOOSE a \in ResolveSeqs_dependents_first(g, deps[i], F[i - 1]) : TRUE IN
         {F[Len(deps)]}

\* The orders in which a request for p runs the Planner (or the blur) for
\* the Paintings it renders, continuing the order acc: a Painting with a
\* valid entry, or rendered earlier in the request, is not run; otherwise
\* its dependencies are resolved, in any order, and then it is run.
RECURSIVE ResolveSeqs(_, _, _)
ResolveSeqs(g, p, acc) ==
    IF Valid(g, p) \/ p \in Range(acc) THEN {acc}
    ELSE LET Visit[order \in Orders(Dependencies(g, p)), i \in 0 .. Cardinality(Dependencies(g, p))] ==
                 IF i = 0 THEN {acc}
                 ELSE UNION {ResolveSeqs(g, order[i], a) : a \in Visit[order, i - 1]} IN
         {Append(a, p) : a \in UNION {Visit[order, Cardinality(Dependencies(g, p))] :
                                         order \in Orders(Dependencies(g, p))}}

\* Vello's render request for a Painting of the gallery.  The entry's field
\* `repainted` is not in the code: it records that the Painting's source was
\* reassigned after the entry was stored.
render(g, p) ==
    /\ Idle(g)
    /\ held[p] >= 1
    /\ inner[p].gallery_id = g
    /\ p \in DOMAIN galleries[g].paintings
    /\ Acyclic(g, p)
    /\ AllBound(g, p)
    /\ \E order \in ResolveSeqs(g, p, << >>) :
        LET ran == Range(order) IN
        /\ cache' = [q \in DOMAIN cache \cup ran |->
                        IF q \in ran
                        THEN [generation |-> galleries[g].generation, repainted |-> FALSE]
                        ELSE cache[q]]
        /\ ret' = [NoCall EXCEPT !.op = "render", !.gallery = g, !.painting = p,
                                 !.ran = ran, !.order = order]
    /\ UNCHANGED <<hvars, svars, ovars>>
    /\ UNCHANGED <<GALLERY_IDS, PAINTING_IDS, galleries, inner, held,
                   painter, gcframe>>

\* ------------------------------------------------------------------------
\* The render graph as a state machine
\* ------------------------------------------------------------------------

\* The host program and the scan, not started.
HostIdle ==
    /\ build = "release"
    /\ input_data = << >>
    /\ expected_total = <<0, 0>>
    /\ hpc = "idle"

ScanIdle ==
    /\ tpc = << >>
    /\ aggregates = << >>
    /\ prefixes = << >>
    /\ look = << >>
    /\ excl = << >>
    /\ output = << >>

\* No thread is inside PaintingId::next or GalleryId::next.
ThreadsIdle ==
    /\ ipc = << >>
    /\ issued = << >>

\* The Planner and the engine have nothing to do.
PlannerIdle ==
    /\ scene_data = [path_tags |-> << >>, path_data |-> << >>]
    /\ PROXY_IDS = 0
    /\ planned = << >>
    /\ elog = << >>
    /\ memory = << >>
    /\ eresult = ""
    /\ earlier = << >>

\* No RenderContext exists, and no file.
UtilIdle ==
    /\ pipeline_cache_directory = << >>
    /\ files = << >>
    /\ devices = << >>
    /\ store = << >>
    /\ uret = << >>

\* No program waits for the device.
WaitIdle ==
    /\ waiter = ""
    /\ wpc = ""
    /\ work = 0
    /\ wlog = << >>

OthersIdle == ThreadsIdle /\ PlannerIdle /\ UtilIdle /\ WaitIdle

\* The state after the application constructed n galleries (Gallery::new, n
\* times: GALLERY_IDS starts at 1) and nothing else; PAINTING_IDS starts at 0.
Constructed(n) ==
    /\ GALLERY_IDS = n + 1
    /\ PAINTING_IDS = 0
    /\ galleries = [g \in 1..n |-> new_inner]
    /\ inner = << >>
    /\ held = << >>
    /\ painter = [g \in 1..n |-> << >>]
    /\ gcframe = [g \in 1..n |-> << >>]
    /\ ret = NoCall
    /\ cache = << >>

\* Every operation of graph.rs on the constructed galleries.
NextGallery ==
    \/ \E g \in Galleries : create_painting(g)
    \/ \E p \in Paintings : Painting_clone(p)
    \/ \E p \in Paintings : Painting_drop(p)
    \/ \E g \in Galleries, p \in Paintings : paint(g, p)
    \/ \E g \in Galleries, image \in Images : as_image(g, image)
    \/ \E g \in Galleries, scene \in Images, ps \in SUBSET Paintings : as_scene(g, scene, ps)
    \/ \E g \in Galleries, from \in Paintings : as_blur(g, from)
    \/ \E g \in Galleries : Painter_drop(g)
    \/ \E g \in Galleries : gc_begin(g)
    \/ \E g \in Galleries : gc_loop(g)

\* The same with Vello's render requests.
NextRender ==
    \/ NextGallery
    \/ \E g \in Galleries, p \in Paintings : render(g, p)

\* One gallery, two galleries.
InitOne == Constructed(1) /\ HostIdle /\ ScanIdle /\ OthersIdle
InitTwo == Constructed(2) /\ HostIdle /\ ScanIdle /\ OthersIdle

SpecOne == InitOne /\ [][NextGallery]_vars
SpecTwo == InitTwo /\ [][NextGallery]_vars
SpecRender == InitOne /\ [][NextRender]_vars

\* Two galleries that the application may also drop.
NextDrop ==
    \/ NextGallery
    \/ \E g \in Galleries : Gallery_drop(g)

SpecDrop == InitTwo /\ [][NextDrop]_vars

\* ------------------------------------------------------------------------
\* Properties of the render graph
\* ------------------------------------------------------------------------

\* A render request for p can be made of gallery g.
Requestable(g, p) ==
    /\ Idle(g)
    /\ p \in DOMAIN held /\ held[p] >= 1
    /\ inner[p].gallery_id = g
    /\ p \in DOMAIN galleries[g].paintings
    /\ Acyclic(g, p)
    /\ AllBound(g, p)

\* C3: whenever a render request can be made for a Painting whose source was
\* reassigned through paint() after its cache entry was stored, the entry's
\* generation differs from the gallery's current generation, so that the
\* request re-renders the Painting instead of reusing the texture.
C3_ReassignedIsRerendered ==
    \A g \in Galleries : \A p \in DOMAIN cache :
        (Requestable(g, p) /\ cache[p].repainted) =>
            /\ cache[p].generation # galleries[g].generation
            /\ p \in Resolve(g, p)

\* C4: paint() of gallery B with a Painting created by another gallery A
\* returns None and changes nothing: generation, map, channel and borrow of
\* B and of A, the handles, the cache and the id counters are as before.
C4_ForeignPaintIsRejected ==
    [][(ret'.op = "paint" /\ inner[ret'.painting].gallery_id # ret'.gallery) =>
           /\ ~ret'.some
           /\ UNCHANGED <<GALLERY_IDS, PAINTING_IDS, galleries, inner, held,
                          painter, gcframe, cache>>]_vars

C4_Witness ==
    /\ ret.op = "paint"
    /\ ~ret.some
    /\ inner[ret.painting].gallery_id # ret.gallery
    /\ galleries[ret.gallery].paintings # << >>
    /\ galleries[ret.gallery].incoming_deallocations # << >>
    /\ galleries[inner[ret.painting].gallery_id].paintings # << >>

\* The step in which gc() of g returns.
gc_returns(g) == gcframe[g] # << >> /\ gcframe'[g] = << >>

\* C5: when gc() returns, no Painting whose last handle had been dropped
\* before gc() started is a key of the gallery's map.
C5_ReleasedAreReclaimed ==
    [][\A g \in Galleries :
          gc_returns(g) =>
              \A p \in gcframe[g][1].released :
                  p \notin DOMAIN galleries'[g].paintings]_vars

C5_Witness ==
    \E g \in Galleries :
        /\ gcframe[g] # << >>
        /\ galleries[g].incoming_deallocations = << >>
        /\ \E p \in gcframe[g][1].released :
              /\ p \in DOMAIN gcframe[g][1].paintings
              /\ p \in gcframe[g][1].drained
              /\ p \notin DOMAIN galleries[g].paintings

\* C6: a render request whose Painting has a cache entry with the gallery's
\* current generation reuses it (the Planner runs for nothing and the cache
\* is as before); a request whose Painting has no entry, or an entry with
\* another generation, renders the Painting and replaces the entry by one
\* that stores the generation current at the request.
C6_ValidIffGenerationsEqual ==
    [][ret'.op = "render" =>
          LET g == ret'.gallery
              p == ret'.painting IN
          IF p \in DOMAIN cache /\ cache[p].generation = galleries[g].generation
          THEN ret'.ran = {} /\ cache' = cache
          ELSE /\ p \in ret'.ran
               /\ p \in DOMAIN cache'
               /\ cache'[p] = [generation |-> galleries[g].generation,
                               repainted |-> FALSE]]_vars

C6_Witness ==
    /\ ret.op = "render"
    /\ ret.ran = {}
    /\ cache[ret.painting].generation = galleries[ret.gallery].generation
    /\ galleries[ret.gallery].generation # Generation_default
    /\ \E q \in DOMAIN cache :
          cache[q].generation # galleries[ret.gallery].generation

\* C17: in a render request, whenever the Planner (or the blur) is run for
\* a Painting, every Painting its source depends on has a texture that is
\* valid for the request: its cache entry was valid when the request was
\* made, or it was rendered earlier in the same request; and after the
\* request the entries of all of them are valid.
C17_DependenciesResolvedFirst ==
    [][ret'.op = "render" =>
          LET g == ret'.gallery
              order == ret'.order IN
          /\ Range(order) = ret'.ran
          /\ \A i \in DOMAIN order :
                \A d \in Dependencies(g, order[i]) :
                    /\ Valid(g, d) \/ \E j \in 1 .. i - 1 : order[j] = d
                    /\ d \in DOMAIN cache'
                    /\ cache'[d].generation = galleries'[g].generation
          /\ order # << >> => order[Len(order)] = ret'.painting]_vars

C17_Witness ==
    /\ ret.op = "render"
    /\ Len(ret.order) >= 2
    /\ ret.order[1] \in Dependencies(ret.gallery, ret.order[2])
    /\ galleries[ret.gallery].paintings[ret.order[2]].source.kind = "Blur"
    /\ galleries[ret.gallery].generation # Generation_default

\* A terminal call of the Painter of g with the source src.
Assigned(g, src) ==
    \/ \E image \in Images : src = Image(image) /\ as_image(g, image)
    \/ \E scene \in Images, ps \in SUBSET Paintings :
          src = Canvas(scene, ps) /\ as_scene(g, scene, ps)
    \/ \E from \in Paintings : src = Blur(from) /\ as_blur(g, from)

\* The sources an application can assign.
Sources ==
    {Image(image) : image \in Images}
        \cup {Canvas(scene, ps) : scene \in Images, ps \in SUBSET Paintings}
        \cup {Blur(from) : from \in Paintings}

C18_PainterAssignsExactlyOnce ==
    [][\A g \in Galleries :
          /\ (painter[g] # << >> /\ painter'[g] # painter[g]) =>
                \E src \in Sources : Assigned(g, src)
          /\ \A src \in Sources : Assigned(g, src) => painter'[g] = << >>]_vars

\* C19: a gallery's generation is a monotonic version counter: every paint
\* and every gc sweep that changes it moves it to a strictly larger value, so
\* it never comes back to a value it held earlier.
C19_GenerationIsMonotonic ==
    [][\A g \in Galleries :
          galleries'[g].generation # galleries[g].generation =>
              galleries'[g].generation > galleries[g].generation]_vars

\* C8: a terminal call of a Painter makes the given source the source of
\* the painted Painting, leaves the source of every other Painting of the
\* map as it was, and leaves the gallery's generation one step after the
\* value it had before paint() was called.
C8_AssignReplacesOneSource ==
    [][\A g \in Galleries : \A src \in Sources :
          Assigned(g, src) =>
              LET p == painter[g][1].painting
                  old == galleries[g].paintings
                  new == galleries'[g].paintings IN
              /\ p \in DOMAIN new /\ new[p].source = src
              /\ DOMAIN new = DOMAIN old \cup {p}
              /\ \A q \in DOMAIN old \ {p} : new[q] = old[q]
              /\ galleries'[g].generation = nudge(painter[g][1].before)
              /\ galleries'[g].generation # painter[g][1].before]_vars

C8_Witness ==
    \E g \in Galleries : \E p, q \in DOMAIN galleries[g].paintings :
        /\ Idle(g)
        /\ p # q
        /\ galleries[g].paintings[p].generation # Generation_default
        /\ galleries[g].paintings[p].source = Blur(q)
        /\ galleries[g].paintings[q].source = Image("img")

\* C9: gc() returns with the channel empty, having received every id that
\* was waiting when it started; no id it received is a key of the map; the
\* generation is one step further when an entry was removed, and otherwise
\* unchanged; with nothing to receive, generation and map are as gc() found
\* them.
C9_SweepDrainsAndBumpsOnce ==
    [][\A g \in Galleries :
          gc_returns(g) =>
              LET f == gcframe[g][1]
                  new == galleries'[g] IN
              /\ new.incoming_deallocations = << >>
              /\ f.queued \subseteq f.drained
              /\ f.drained \cap DOMAIN new.paintings = {}
              /\ DOMAIN new.paintings = DOMAIN f.paintings \ f.drained
              /\ \A q \in DOMAIN new.paintings : new.paintings[q] = f.paintings[q]
              /\ DOMAIN f.paintings \cap f.drained # {} =>
                    new.generation = nudge(f.generation)
              /\ new.generation \in {f.generation, nudge(f.generation)}
              /\ f.drained = {} =>
                    /\ new.generation = f.generation
                    /\ new.paintings = f.paintings]_vars

C9_Witness ==
    \E g \in Galleries :
        /\ gcframe[g] # << >>
        /\ galleries[g].incoming_deallocations = << >>
        /\ Cardinality(gcframe[g][1].drained) >= 2
        /\ gcframe[g][1].drained \cap DOMAIN gcframe[g][1].paintings # {}
        /\ ~(gcframe[g][1].drained \subseteq gcframe[g][1].queued)

\* C10: every Painting a gallery's map refers to, as a key or as a
\* dependency inside a source, was created by that gallery.
C10_MapsReferToOwnPaintings ==
    \A g \in Galleries : \A p \in DOMAIN galleries[g].paintings :
        /\ inner[p].gallery_id = g
        /\ \A q \in Embedded(galleries[g].paintings[p].source) :
              inner[q].gallery_id = g

\* The number of times p waits in its gallery's reclamation channel.
Occurrences(gs, p) ==
    LET chan == gs[inner[p].gallery_id].incoming_deallocations IN
    Cardinality({i \in DOMAIN chan : chan[i] = p})

\* C11: a handle that the application holds can be dropped in every state,
\* whatever the gallery is doing (a Painter alive, gc() running); a step
\* enqueues the id of a Painting exactly when it takes the Painting's last
\* handle away, and then once; a Painting without handles never gets one
\* again, so its id is never enqueued a second time.
C11_DropSendsOnceAtLastHandle ==
    /\ [](\A p \in Paintings : held[p] >= 1 => ENABLED Painting_drop(p))
    /\ [][\A p \in Paintings :
             LET before == Strong(p, held, galleries)
                 after == Strong(p, held', galleries')
                 own == inner[p].gallery_id
                 dequeued == IF /\ gcframe[own] # << >>
                                /\ gcframe'[own] # << >>
                                /\ gcframe'[own] # gcframe[own]
                                /\ galleries[own].incoming_deallocations # << >>
                                /\ Head(galleries[own].incoming_deallocations) = p
                             THEN 1 ELSE 0
                 enqueued == Occurrences(galleries', p) + dequeued
                                 - Occurrences(galleries, p) IN
             /\ enqueued = IF before > 0 /\ after = 0 THEN 1 ELSE 0
             /\ before = 0 => after = 0
             /\ Occurrences(galleries', p) <= 1]_vars

C11_Witness ==
    \E g \in Galleries :
        /\ gcframe[g] # << >>
        /\ galleries[g].incoming_deallocations # << >>
        /\ LET p == Head(galleries[g].incoming_deallocations) IN
              /\ p \notin gcframe[g][1].released
              /\ p \in DOMAIN galleries[g].paintings
              /\ Strong(p, held, galleries) = 0

\* Whether a is an initial part of b.
IsPrefix(a, b) == Len(a) <= Len(b) /\ SubSeq(b, 1, Len(a)) = a

\* C27: with handles dropped while gc() runs, no id is lost and none is
\* taken twice.  The id of a Painting with a handle left is not in the
\* channel; the id of a Painting without handles is in the channel once, or
\* it has been received and the Painting is no key of the map; an iteration
\* of gc() takes the first id of the channel, removes that Painting from the
\* map, and leaves the ids behind it waiting, in their order, for this sweep
\* or a later one.
C27_NoIdLostOrTakenTwice ==
    /\ [](\A p \in Paintings :
            IF Strong(p, held, galleries) > 0
            THEN Occurrences(galleries, p) = 0
            ELSE /\ Occurrences(galleries, p) <= 1
                 /\ Occurrences(galleries, p) = 0 =>
                       p \notin DOMAIN galleries[inner[p].gallery_id].paintings)
    /\ [][\A g \in Galleries :
            (gcframe[g] # << >> /\ gcframe'[g] # << >> /\ gcframe'[g] # gcframe[g]) =>
                LET chan == galleries[g].incoming_deallocations IN
                /\ chan # << >>
                /\ gcframe'[g][1].drained = gcframe[g][1].drained \cup {Head(chan)}
                /\ Head(chan) \notin DOMAIN galleries'[g].paintings
                /\ IsPrefix(Tail(chan), galleries'[g].incoming_deallocations)]_vars

\* During a sweep that has taken one id, the application dropped the last
\* handle of another Painting, which has a source: its id waits.
C27_Witness ==
    \E g \in Galleries :
        /\ gcframe[g] # << >>
        /\ gcframe[g][1].drained # {}
        /\ \E p \in Paintings :
              /\ galleries[g].incoming_deallocations = <<p>>
              /\ p \notin gcframe[g][1].queued
              /\ p \notin gcframe[g][1].released
              /\ p \in DOMAIN galleries[g].paintings
              /\ \A q \in gcframe[g][1].drained \cap DOMAIN gcframe[g][1].paintings :
                    p \notin Embedded(gcframe[g][1].paintings[q].source)

\* C28: a gc() that removed no entry from the map, also one that received
\* only ids of Paintings that never had a source, returns with the
\* generation it found.
C28_SweepWithoutRemovalKeepsGeneration ==
    [][\A g \in Galleries :
          (gc_returns(g) /\ DOMAIN gcframe[g][1].paintings \cap gcframe[g][1].drained = {}) =>
              galleries'[g].generation = gcframe[g][1].generation]_vars

\* C29: an iteration of gc() that takes the last handle of a Painting away,
\* by removing the entry whose source held it, has that Painting's id in the
\* channel when it ends; and gc() returns with the channel empty and with no
\* Painting without handles left as a key of the map.
C29_SweepFollowsReleasedSources ==
    [][\A g \in Galleries :
          /\ (gcframe[g] # << >> /\ gcframe'[g] # << >> /\ gcframe'[g] # gcframe[g]) =>
                \A q \in Paintings :
                    (Strong(q, held, galleries) > 0 /\ Strong(q, held', galleries') = 0) =>
                        /\ held'[q] = held[q]
                        /\ Occurrences(galleries', q) = 1
          /\ gc_returns(g) =>
                /\ galleries'[g].incoming_deallocations = << >>
                /\ \A q \in Paintings :
                      (inner[q].gallery_id = g /\ Strong(q, held', galleries') = 0) =>
                          q \notin DOMAIN galleries'[g].paintings]_vars

\* The sweep took p, whose blur held the last handle of q; q's id came
\* during the sweep, and q's entry is removed as well.
C29_Witness ==
    \E g \in Galleries :
        /\ gcframe[g] # << >>
        /\ galleries[g].incoming_deallocations = << >>
        /\ \E p, q \in gcframe[g][1].drained :
              /\ p # q
              /\ {p, q} \subseteq DOMAIN gcframe[g][1].paintings
              /\ gcframe[g][1].paintings[p].source.kind = "Blur"
              /\ q \in Embedded(gcframe[g][1].paintings[p].source)
              /\ q \notin gcframe[g][1].queued
              /\ q \notin gcframe[g][1].released
              /\ held[q] = 0
              /\ DOMAIN galleries[g].paintings = {}

\* C30: a Painting that the application can no longer reach is reclaimed by
\* gc().  When the application holds no handle at all, no Painter is alive,
\* no gc() is running and no id waits in a channel, every sweep that could
\* reclaim something has run: no gallery's map has an entry left.
C30_UnreachableAreReclaimed ==
    (/\ \A p \in Paintings : held[p] = 0
     /\ \A g \in Galleries : Idle(g) /\ galleries[g].incoming_deallocations = << >>)
        => \A g \in Galleries : DOMAIN galleries[g].paintings = {}

\* C31: in every reachable Gallery state the depends-on relation between
\* Paintings (a blur's source, the Paintings embedded in a scene) is acyclic:
\* no Painting with a source is reachable from its own dependencies, so the
\* recursive resolution of a render request terminates for every Painting.
C31_DependenciesAreAcyclic ==
    \A g \in Galleries :
        \A p \in DOMAIN galleries[g].paintings : Acyclic(g, p)

\* C33: when the last handle of a Painting is dropped after its Gallery was
\* destroyed, the drop completes (it is never blocked: a handle that is held
\* can always be dropped), the failed send is ignored, and no Gallery, no
\* Painter, no running gc() and no cache entry changes: only the handle is
\* gone.
C33_OrphanDropIsIgnored ==
    /\ [](\A p \in Paintings : held[p] >= 1 => ENABLED Painting_drop(p))
    /\ [][\A p \in Paintings :
            (/\ Painting_drop(p)
             /\ inner[p].gallery_id \notin Galleries
             /\ held[p] = 1
             /\ Strong(p, held, galleries) = 1)
                => /\ galleries' = galleries
                   /\ painter' = painter
                   /\ gcframe' = gcframe
                   /\ cache' = cache
                   /\ inner' = inner
                   /\ held' = [held EXCEPT ![p] = 0]
                   /\ ret'.op = "send_failed"]_vars

\* The last handle of a Painting of a destroyed Gallery was dropped while
\* another Gallery, with a Painting of its own in its map, is alive.
C33_Witness ==
    /\ ret.op = "send_failed"
    /\ inner[ret.painting].gallery_id \notin Galleries
    /\ Strong(ret.painting, held, galleries) = 0
    /\ \E g \in Galleries :
          /\ galleries[g].paintings # << >>
          /\ galleries[g].incoming_deallocations = << >>

\* C34: gc() never reaches its unreachable! branch: for a Gallery that is
\* alive, try_recv never reports Disconnected, whatever became of the
\* handles of its Paintings, because the Gallery stores a sender itself.
C34_ChannelIsNeverDisconnected ==
    /\ ret.op # "unreachable"
    /\ \A g \in Galleries :
          /\ Senders(galleries, g) >= 1
          /\ try_recv(galleries, g).result # "Disconnected"

\* A gc() that has received the ids of Paintings it created, of which no
\* handle is left anywhere, and finds the channel empty.
C34_Witness ==
    \E g \in Galleries :
        /\ gcframe[g] # << >>
        /\ gcframe[g][1].drained # {}
        /\ \E p \in Paintings : inner[p].gallery_id = g
        /\ \A p \in Paintings :
              inner[p].gallery_id = g => Strong(p, held, galleries) = 0
        /\ Senders(galleries, g) = 1
        /\ try_recv(galleries, g).result = "Empty"



\* ------------------------------------------------------------------------
\* main.rs: u32 arithmetic.  A u32 is <<hi, lo>>, its two 16-bit halves.
\* ------------------------------------------------------------------------

Half == 256 * 256

\* The sum of two numbers with 16-bit low halves; the high half is not reduced.
add(a, b) == <<a[1] + b[1] + ((a[2] + b[2]) \div Half), (a[2] + b[2]) % Half>>

\* u32::wrapping_add, what `+` is in a release build.
wrapping_add(a, b) == <<add(a, b)[1] % Half, add(a, b)[2]>>

\* Whether `+` overflows u32, which panics in a debug build.
overflows(a, b) == add(a, b)[1] >= Half

\* input_data.iter().sum::<u32>() over the first n elements, wrapping.
RECURSIVE sum(_, _)
sum(data, n) == IF n = 0 THEN <<0, 0>> ELSE wrapping_add(sum(data, n - 1), data[n])

\* Whether the summation overflows at some element.
sum_overflows(data) == \E n \in 1..Len(data) : overflows(sum(data, n - 1), data[n])

\* The total reduction in unbounded arithmetic.
RECURSIVE total(_, _)
total(data, n) == IF n = 0 THEN <<0, 0>> ELSE add(total(data, n - 1), data[n])

\* expected_total & 1u32 << 31 != 0.
bit31(x) == x[1] >= Half \div 2

\* ------------------------------------------------------------------------
\* main.rs: run(), the host program
\* ------------------------------------------------------------------------

\* The length of the ramps of input_data: (0..32).
ramp == 32

total_data == workgroup_size * num_workgroups

\* let input_data = (0..(total_data / 32)).flat_map(|_| 0..32).collect(),
\* with the scaled total_data (shorter than one ramp: the ramp is cut).
ramps == [i \in 1..total_data |-> <<0, (i - 1) % ramp>>]

\* let expected_total = input_data.iter().sum::<u32>(): wraps in a release
\* build, panics on overflow in a debug build.
host_sum ==
    /\ hpc = "start"
    /\ IF build = "debug" /\ sum_overflows(input_data)
       THEN hpc' = "overflow_panic" /\ UNCHANGED expected_total
       ELSE hpc' = "summed" /\ expected_total' = sum(input_data, Len(input_data))
    /\ UNCHANGED <<build, input_data>>
    /\ UNCHANGED <<gvars, svars, ovars>>

\* if expected_total & 1u32 << 31 != 0 { panic!("Expected total too big") }
host_check ==
    /\ hpc = "summed"
    /\ hpc' = IF bit31(expected_total) THEN "too_big_panic" ELSE "checked"
    /\ UNCHANGED <<build, input_data, expected_total>>
    /\ UNCHANGED <<gvars, svars, ovars>>

\* The shader module, the five buffers, the pipeline and the bind group.
create_buffers ==
    /\ hpc = "checked"
    /\ hpc' = "buffers"
    /\ UNCHANGED <<build, input_data, expected_total>>
    /\ UNCHANGED <<gvars, svars, ovars>>

\* A published word of aggregate_buffer or inclusive_prefix_buffer; a buffer
\* starts zeroed, which reads as not published.
Zeroed == [ready |-> FALSE, value |-> << >>]
Published(v) == [ready |-> TRUE, value |-> v]

Tiles == 0 .. num_workgroups - 1

\* The dispatch with one workgroup too few.
dispatch_one_short ==
    /\ hpc = "buffers"
    /\ hpc' = "dispatched"
    /\ tpc' = [t \in 0 .. num_workgroups - 2 |-> "start"]
    /\ aggregates' = [t \in Tiles |-> Zeroed]
    /\ prefixes' = [t \in Tiles |-> Zeroed]
    /\ look' = [t \in Tiles |-> t - 1]
    /\ excl' = [t \in Tiles |-> << >>]
    /\ output' = [i \in 0 .. total_data - 1 |-> << >>]
    /\ UNCHANGED <<build, input_data, expected_total>>
    /\ UNCHANGED <<gvars, ovars>>

\* pass.dispatch_workgroups(num_workgroups, 1, 1): one workgroup per tile,
\* started in no particular order, on zeroed buffers.
dispatch_workgroups ==
    /\ hpc = "buffers"
    /\ hpc' = "dispatched"
    /\ tpc' = [t \in Tiles |-> "start"]
    /\ aggregates' = [t \in Tiles |-> Zeroed]
    /\ prefixes' = [t \in Tiles |-> Zeroed]
    /\ look' = [t \in Tiles |-> t - 1]
    /\ excl' = [t \in Tiles |-> << >>]
    /\ output' = [i \in 0 .. total_data - 1 |-> << >>]
    /\ UNCHANGED <<build, input_data, expected_total>>
    /\ UNCHANGED <<gvars, ovars>>

\* ------------------------------------------------------------------------
\* The decoupled-lookback scan of the dispatched shader (prefix_sum.wgsl)
\* ------------------------------------------------------------------------

\* The combine: associative and order-sensitive.  Words over the input
\* values under concatenation are the free monoid, of which every other
\* combine (the shader's u32 sum among them) is an image.
Combine(a, b) == a \o b

\* input_data[i] as a monoid element (indices from 0, as in the buffers).
Element(i) == <<input_data[i + 1]>>

\* The sequential left-to-right fold of elements lo..=hi.
RECURSIVE Fold(_, _)
Fold(lo, hi) == IF hi < lo THEN << >> ELSE Combine(Fold(lo, hi - 1), Element(hi))

First(t) == t * workgroup_size
Last(t) == First(t) + workgroup_size - 1

\* Steps 1 and 2: the local scan, and the tile aggregate published as
\* Aggregate-Available.
tile_local(t) ==
    /\ tpc[t] = "start"
    /\ aggregates' = [aggregates EXCEPT ![t] = Published(Fold(First(t), Last(t)))]
    /\ tpc' = [tpc EXCEPT ![t] = IF look[t] < 0 THEN "resolved" ELSE "lookback"]
    /\ UNCHANGED <<prefixes, look, excl, output>>
    /\ UNCHANGED <<gvars, hvars, ovars>>

\* A lookback that does not wait: it folds in what the predecessor's words
\* hold, published or not.
tile_lookback_eager(t) ==
    /\ tpc[t] = "lookback"
    /\ LET j == look[t] IN
        IF prefixes[j].ready
        THEN /\ excl' = [excl EXCEPT ![t] = Combine(prefixes[j].value, @)]
             /\ tpc' = [tpc EXCEPT ![t] = "resolved"]
             /\ UNCHANGED look
        ELSE /\ excl' = [excl EXCEPT ![t] = Combine(aggregates[j].value, @)]
             /\ look' = [look EXCEPT ![t] = j - 1]
             /\ tpc' = [tpc EXCEPT ![t] = IF j = 0 THEN "resolved" ELSE "lookback"]
    /\ UNCHANGED <<aggregates, prefixes, output>>
    /\ UNCHANGED <<gvars, hvars, ovars>>

\* Step 3, one predecessor of the walk: a Prefix-Available predecessor ends
\* the walk with its inclusive prefix folded in; an Aggregate-Available one
\* has its aggregate folded in and the walk goes further back; a predecessor
\* that published nothing makes the tile wait.
tile_lookback(t) ==
    /\ tpc[t] = "lookback"
    /\ LET j == look[t] IN
        /\ prefixes[j].ready \/ aggregates[j].ready
        /\ IF prefixes[j].ready
           THEN /\ excl' = [excl EXCEPT ![t] = Combine(prefixes[j].value, @)]
                /\ tpc' = [tpc EXCEPT ![t] = "resolved"]
                /\ UNCHANGED look
           ELSE /\ excl' = [excl EXCEPT ![t] = Combine(aggregates[j].value, @)]
                /\ look' = [look EXCEPT ![t] = j - 1]
                /\ tpc' = [tpc EXCEPT ![t] = IF j = 0 THEN "resolved" ELSE "lookback"]
    /\ UNCHANGED <<aggregates, prefixes, output>>
    /\ UNCHANGED <<gvars, hvars, ovars>>

\* A step 4 that writes the output and ends without publishing the
\* inclusive prefix.
tile_publish_silent(t) ==
    /\ tpc[t] = "resolved"
    /\ output' = [i \in DOMAIN output |->
                     IF First(t) <= i /\ i <= Last(t)
                     THEN Combine(excl[t], Fold(First(t), i)) ELSE output[i]]
    /\ tpc' = [tpc EXCEPT ![t] = "done"]
    /\ UNCHANGED <<aggregates, prefixes, look, excl>>
    /\ UNCHANGED <<gvars, hvars, ovars>>

\* Step 4: the exclusive prefix is added to every local value and the
\* inclusive prefix is published as Prefix-Available.
tile_publish(t) ==
    /\ tpc[t] = "resolved"
    /\ output' = [i \in DOMAIN output |->
                     IF First(t) <= i /\ i <= Last(t)
                     THEN Combine(excl[t], Fold(First(t), i)) ELSE output[i]]
    /\ prefixes' = [prefixes EXCEPT ![t] = Published(Combine(excl[t], aggregates[t].value))]
    /\ tpc' = [tpc EXCEPT ![t] = "done"]
    /\ UNCHANGED <<aggregates, look, excl>>
    /\ UNCHANGED <<gvars, hvars, ovars>>

\* main.rs, after the dispatch finished and the result was read back:
\* agg += v; assert_eq!(*actual, agg) for every element.
host_verify ==
    /\ hpc = "dispatched"
    /\ \A t \in DOMAIN tpc : tpc[t] = "done"
    /\ hpc' = IF /\ Len(input_data) = Cardinality(DOMAIN output)
                 /\ \A i \in DOMAIN output : output[i] = Fold(0, i)
              THEN "verified" ELSE "assert_failed"
    /\ UNCHANGED <<build, input_data, expected_total>>
    /\ UNCHANGED <<gvars, svars, ovars>>

\* ------------------------------------------------------------------------
\* The host program as a state machine
\* ------------------------------------------------------------------------

GalleryIdle == Constructed(0)

\* The u32 values the inputs are made of: 1, 2^30, 2^31 and 2^32 - 1.
U32Values == {<<0, 1>>, <<Half \div 4, 0>>, <<Half \div 2, 0>>, <<Half - 1, Half - 1>>}

Inputs == UNION {[1..n -> U32Values] : n \in 0..MaxInputLen}

HostStart ==
    /\ build \in {"debug", "release"}
    /\ expected_total = <<0, 0>>
    /\ hpc = "start"

\* run() on any input, up to the dispatch.
InitHost == GalleryIdle /\ ScanIdle /\ OthersIdle /\ HostStart /\ input_data \in Inputs

NextHost ==
    \/ host_sum
    \/ host_check
    \/ create_buffers
    \/ dispatch_workgroups

SpecHost == InitHost /\ [][NextHost]_vars

\* run() on its own input, with the workgroups of the dispatch.
InitScan == GalleryIdle /\ ScanIdle /\ OthersIdle /\ HostStart /\ input_data = ramps

NextScan ==
    \/ NextHost
    \/ \E t \in DOMAIN tpc : tile_local(t)
    \/ \E t \in DOMAIN tpc : tile_lookback(t)
    \/ \E t \in DOMAIN tpc : tile_publish(t)
    \/ host_verify

SpecScan == InitScan /\ [][NextScan]_vars

\* The device schedules every tile that can take a step: a workgroup that
\* has been started is not starved for ever.
TileStep(t) == t \in DOMAIN tpc /\ (tile_local(t) \/ tile_lookback(t) \/ tile_publish(t))
SpecScanFair == SpecScan /\ \A t \in Tiles : WF_vars(TileStep(t))

\* ------------------------------------------------------------------------
\* Properties of the scan and of the host program
\* ------------------------------------------------------------------------

\* The dispatch has finished: every workgroup ran to its end.
ScanFinished ==
    \/ hpc = "dispatched" /\ \A t \in DOMAIN tpc : tpc[t] = "done"
    \/ hpc \in {"verified", "assert_failed"}

\* C1: when the decoupled-lookback scan has finished, whatever the order in
\* which the tiles ran and published, the output at every index i is the
\* sequential left-to-right fold of elements 0..=i under the combine, and
\* the host's verification loop does not fail.
C1_ScanIsSequentialFold ==
    ScanFinished =>
        /\ hpc # "assert_failed"
        /\ \A i \in 0 .. Len(input_data) - 1 :
              i \in DOMAIN output /\ output[i] = Fold(0, i)

\* A finished and verified scan in which some tile walked back over a
\* predecessor's aggregate and then stopped at a published inclusive prefix.
C1_Witness ==
    /\ hpc = "verified"
    /\ \E t \in DOMAIN tpc : look[t] >= 0 /\ look[t] < t - 1

\* The published status of a tile: 0 nothing, 1 Aggregate-Available,
\* 2 Prefix-Available.
Status(aggs, prefs, t) == IF prefs[t].ready THEN 2 ELSE IF aggs[t].ready THEN 1 ELSE 0

\* C24: a tile's status never goes back and what it published never
\* changes; an Aggregate-Available tile's aggregate is the fold of its own
\* elements, a Prefix-Available tile's inclusive prefix is the in-order fold
\* of the elements of tiles 0..=k; and a lookback step folds in a value of the
\* predecessor it inspects only when that predecessor has published it.
C24_StatusMovesForward ==
    /\ [](\A k \in DOMAIN tpc :
            /\ aggregates[k].ready => aggregates[k].value = Fold(First(k), Last(k))
            /\ prefixes[k].ready =>
                  /\ prefixes[k].value = Fold(0, Last(k))
                  /\ aggregates[k].ready)
    /\ [][\A k \in DOMAIN tpc :
            /\ Status(aggregates', prefixes', k) >= Status(aggregates, prefixes, k)
            /\ aggregates[k].ready => aggregates'[k] = aggregates[k]
            /\ prefixes[k].ready => prefixes'[k] = prefixes[k]
            /\ (tpc[k] = "lookback" /\ (tpc'[k] # tpc[k] \/ look'[k] # look[k])) =>
                  \/ /\ prefixes[look[k]].ready
                     /\ excl'[k] = Combine(prefixes[look[k]].value, excl[k])
                  \/ /\ ~prefixes[look[k]].ready /\ aggregates[look[k]].ready
                     /\ excl'[k] = Combine(aggregates[look[k]].value, excl[k])]_vars

\* Tile 2 is Prefix-Available having walked over tile 1, which is only
\* Aggregate-Available.
C24_Witness ==
    /\ hpc = "dispatched"
    /\ Status(aggregates, prefixes, 2) = 2
    /\ Status(aggregates, prefixes, 1) = 1
    /\ Status(aggregates, prefixes, 3) = 0
    /\ look[2] < 1

\* C25: with every tile scheduled fairly, once the scan is dispatched every
\* tile becomes Prefix-Available and ends.  A tile's walk is at a
\* predecessor between 0 and the tile before it and never returns to one it
\* passed; a walking tile can step exactly when the predecessor it inspects
\* has published something; and tile 0 never walks.
C25_EveryTileResolves ==
    /\ [](\A t \in DOMAIN tpc :
            /\ look[t] \in -1 .. t - 1
            /\ tpc[t] = "lookback" =>
                  /\ t > 0 /\ look[t] >= 0
                  /\ ENABLED tile_lookback(t) <=> Status(aggregates, prefixes, look[t]) >= 1)
    /\ [][\A t \in DOMAIN tpc : look'[t] <= look[t]]_vars
    /\ (hpc = "dispatched") ~>
          (\A t \in Tiles : t \in DOMAIN tpc /\ tpc[t] = "done" /\ prefixes[t].ready)

\* The last tile waits at its predecessor, which has published nothing,
\* while tile 0 has ended.
C25_Witness ==
    /\ hpc = "dispatched"
    /\ tpc[0] = "done"
    /\ tpc[num_workgroups - 1] = "lookback"
    /\ look[num_workgroups - 1] = num_workgroups - 2
    /\ Status(aggregates, prefixes, num_workgroups - 2) = 0
    /\ ~ENABLED tile_lookback(num_workgroups - 1)

Threads == 1 .. MaxThreads

\* static PAINTING_IDS (PaintingId::next), static GALLERY_IDS (GalleryId::next).
Counters == {"PAINTING_IDS", "GALLERY_IDS"}

Value(c) == IF c = "PAINTING_IDS" THEN PAINTING_IDS ELSE GALLERY_IDS

\* A thread outside next(); `id` is what its latest call returned.
Outside(c, id, returned) ==
    [at |-> "outside", counter |-> c, reg |-> 0, id |-> id, returned |-> returned]

\* Threads that are about to call next() for the first time.
ThreadsStart ==
    /\ ipc = [t \in Threads |-> Outside("", 0, FALSE)]
    /\ issued = [c \in Counters |-> << >>]

\* The calls of next() on c that were made, finished or not.
Calls(c) ==
    Len(issued[c]) + Cardinality({t \in Threads : ipc[t].at # "outside" /\ ipc[t].counter = c})

\* Thread t calls PaintingId::next (c = "PAINTING_IDS") or GalleryId::next.
next_call(t, c) ==
    /\ ipc[t].at = "outside"
    /\ Calls(c) < MaxIssued
    /\ ipc' = [ipc EXCEPT ![t] = [@ EXCEPT !.at = "fetch_add", !.counter = c]]
    /\ UNCHANGED <<issued, gvars, hvars, svars, pvars, uvars>>

\* A fetch_add made of a load and a store that other threads can separate.
fetch_add_torn(t, c) ==
    /\ ipc[t].counter = c
    /\ \/ /\ ipc[t].at = "fetch_add"
          /\ ipc' = [ipc EXCEPT ![t] = [@ EXCEPT !.at = "store", !.reg = Value(c)]]
          /\ UNCHANGED <<issued, gvars>>
       \/ /\ ipc[t].at = "store"
          /\ IF c = "PAINTING_IDS"
             THEN PAINTING_IDS' = ipc[t].reg + 1 /\ UNCHANGED GALLERY_IDS
             ELSE GALLERY_IDS' = ipc[t].reg + 1 /\ UNCHANGED PAINTING_IDS
          /\ issued' = [issued EXCEPT ![c] = Append(@, ipc[t].reg)]
          /\ ipc' = [ipc EXCEPT ![t] = Outside(c, ipc[t].reg, TRUE)]
          /\ UNCHANGED <<galleries, inner, held, painter, gcframe, ret, cache>>
    /\ UNCHANGED <<hvars, svars, pvars, uvars>>

\* COUNTER.fetch_add(1, Ordering::Relaxed) by thread t, and the return of
\* Self(id): one atomic read-modify-write.  The counter is a u64 that starts
\* at 0 or 1 and grows by one per call, so it does not wrap within any
\* number of calls a process can make (2^64).
fetch_add(t, c) ==
    /\ ipc[t].at = "fetch_add"
    /\ ipc[t].counter = c
    /\ IF c = "PAINTING_IDS"
       THEN PAINTING_IDS' = PAINTING_IDS + 1 /\ UNCHANGED GALLERY_IDS
       ELSE GALLERY_IDS' = GALLERY_IDS + 1 /\ UNCHANGED PAINTING_IDS
    /\ issued' = [issued EXCEPT ![c] = Append(@, Value(c))]
    /\ ipc' = [ipc EXCEPT ![t] = Outside(c, Value(c), TRUE)]
    /\ UNCHANGED <<galleries, inner, held, painter, gcframe, ret, cache>>
    /\ UNCHANGED <<hvars, svars, pvars, uvars>>

InitIds == GalleryIdle /\ HostIdle /\ ScanIdle /\ ThreadsStart /\ PlannerIdle /\ UtilIdle /\ WaitIdle

NextIds ==
    \/ \E t \in Threads, c \in Counters : next_call(t, c)
    \/ \E t \in Threads, c \in Counters : fetch_add(t, c)

SpecIds == InitIds /\ [][NextIds]_vars

\* C12: the ids that each counter issued are strictly increasing in the
\* order of the increments, hence pairwise distinct, and the counter is
\* above all of them; the ids that two threads got from one counter differ.
C12_IdsAreUniqueAndIncreasing ==
    /\ \A c \in Counters :
          /\ \A i, j \in DOMAIN issued[c] : i < j => issued[c][i] < issued[c][j]
          /\ \A i \in DOMAIN issued[c] : issued[c][i] < Value(c)
    /\ \A t, u \in Threads :
          (/\ t # u
           /\ ipc[t].returned /\ ipc[u].returned
           /\ ipc[t].counter = ipc[u].counter
           /\ ipc[t].at = "outside" /\ ipc[u].at = "outside") =>
              ipc[t].id # ipc[u].id

C12_Witness ==
    /\ \A c \in Counters : Len(issued[c]) >= 2
    /\ \E t, u \in Threads :
          /\ t # u
          /\ ipc[t].returned /\ ipc[u].returned
          /\ ipc[t].at = "outside" /\ ipc[u].at = "outside"
          /\ ipc[t].counter = ipc[u].counter
          /\ ipc[t].id + 1 = ipc[u].id

\* ------------------------------------------------------------------------
\* render.rs and shaders.rs: the Planner
\* ------------------------------------------------------------------------

\* PATHTAG_REDUCE_WG and PATH_COARSE_WG (256 = 2^8 in shaders.rs), scaled.
PATHTAG_REDUCE_WG == 2 ^ LogWG
PATH_COARSE_WG == 2 ^ LogWG

TAG_MONOID_SIZE == 12

\* A rounding that goes to the next multiple also from a multiple.
align_up_past(len, alignment) == len + (alignment - (len % alignment))

\* align_up: len + (len.wrapping_neg() & (alignment - 1)).  For an alignment
\* that is a power of two (2^64 is a multiple of it), the masked negation is
\* (-len) mod alignment.
align_up(len, alignment) == len + ((alignment - (len % alignment)) % alignment)

\* `x as u32`: x modulo 2^32, computed on the two 16-bit halves.
as_u32(x) == ((x \div Half) % Half) * Half + (x % Half)

\* size_to_words: (byte_size / size_of::<u32>()) as u32.
size_to_words(byte_size) == as_u32(byte_size \div 4)

\* The scenes the Planner is given: scene.data() with path_tags (nonzero
\* bytes) and path_data.
Scenes ==
    {[path_tags |-> [i \in 1..n |-> 1 + (i % 3)], path_data |-> [i \in 1..m |-> 7]] :
        n \in 0 .. MaxPathTags, m \in 0 .. MaxPathData}

\* Vec::resize(new_len, value).
resize(v, new_len, value) ==
    [i \in 1..new_len |-> IF i <= Len(v) THEN v[i] ELSE value]

\* init_shaders: the binding kinds registered with each shader, in order.
init_shaders ==
    [pathtag_reduce |-> <<"Uniform", "BufReadOnly", "Buffer">>,
     pathtag_scan |-> <<"Uniform", "BufReadOnly", "BufReadOnly", "Buffer">>,
     path_coarse |-> <<"Uniform", "BufReadOnly", "BufReadOnly", "Buffer", "Buffer">>,
     backdrop |-> <<"Uniform", "Buffer">>,
     fine |-> <<"Uniform", "BufReadOnly", "BufReadOnly", "Image(Rgba8)">>]

\* A buffer proxy whose size also depends on the value of the id counter.
BufProxy_new_sized_by_id(id, size, name) ==
    [kind |-> "Buf", id |-> id, size |-> size + id, name |-> name, uniform |-> FALSE,
     width |-> 0, height |-> 0, format |-> ""]

\* BufProxy::new and ImageProxy::new with the proxy id they are given; a
\* buffer made by upload_uniform is flagged `uniform`.
BufProxy_new(id, size, name) ==
    [kind |-> "Buf", id |-> id, size |-> size, name |-> name, uniform |-> FALSE,
     width |-> 0, height |-> 0, format |-> ""]
ImageProxy_new(id, width, height, format) ==
    [kind |-> "Image", id |-> id, size |-> 0, name |-> "", uniform |-> FALSE,
     width |-> width, height |-> height, format |-> format]

\* The commands of a Recording: upload, upload_uniform, dispatch, clear_all.
Upload(proxy, data) ==
    [op |-> "upload", shader |-> "", wg |-> <<>>, bindings |-> <<proxy>>, data |-> data]
UploadUniform(proxy, data) ==
    [op |-> "upload_uniform", shader |-> "", wg |-> <<>>, bindings |-> <<proxy>>, data |-> data]
Dispatch(shader, wg, bindings) ==
    [op |-> "dispatch", shader |-> shader, wg |-> wg, bindings |-> bindings, data |-> <<>>]
Clear(proxy) ==
    [op |-> "clear_all", shader |-> "", wg |-> <<>>, bindings |-> <<proxy>>, data |-> <<>>]

\* The local variables of render(scene, shaders), in the order in which the
\* code computes them; proxy ids are taken from `id` on, in the order of
\* creation.
render_locals(s, id) ==
    LET n_pathtag == Len(s.path_tags)
        pathtag_padded == align_up(n_pathtag, 4 * PATHTAG_REDUCE_WG)
        pathtag_wgs == pathtag_padded \div (4 * PATHTAG_REDUCE_WG)
        pathtag_base == size_to_words(0)
        tags == resize(s.path_tags, pathtag_padded, 0)
        pathdata_base == size_to_words(Len(tags))
        scene == tags \o s.path_data
        config == [width_in_tiles |-> 64, height_in_tiles |-> 64,
                   target_width |-> 64 * 16, target_height |-> 64 * 16,
                   n_drawobj |-> 0, n_path |-> 0, n_clip |-> 0, bin_data_start |-> 0,
                   pathtag_base |-> pathtag_base, pathdata_base |-> pathdata_base,
                   drawtag_base |-> 0, drawdata_base |-> 0, transform_base |-> 0,
                   linewidth_base |-> 0]
    IN  [n_pathtag |-> n_pathtag,
         pathtag_wgs |-> pathtag_wgs,
         scene |-> scene,
         config |-> config,
         scene_buf |-> BufProxy_new(id, Len(scene), "scene"),
         config_buf |-> [BufProxy_new(id + 1, 14 * 4, "config") EXCEPT !.uniform = TRUE],
         reduced_buf |-> BufProxy_new(id + 2, pathtag_wgs * TAG_MONOID_SIZE, "reduced_buf"),
         tagmonoid_buf |-> BufProxy_new(id + 3,
                               pathtag_wgs * PATHTAG_REDUCE_WG * TAG_MONOID_SIZE,
                               "tagmonoid_buf"),
         path_coarse_wgs |-> (as_u32(n_pathtag) + PATH_COARSE_WG - 1) \div PATH_COARSE_WG,
         tiles_buf |-> BufProxy_new(id + 4, 4097 * 8, "tiles_buf"),
         segments_buf |-> BufProxy_new(id + 5, 256 * 24, "segments_buf"),
         out_image |-> ImageProxy_new(id + 6, config.target_width,
                                      config.target_height, "Rgba8")]

\* The calls render() makes on the Recording.
upload_scene(l) == Upload(l.scene_buf, l.scene)
upload_config(l) == UploadUniform(l.config_buf, <<l.config>>)
dispatch_pathtag_reduce(l) ==
    Dispatch("pathtag_reduce", <<as_u32(l.pathtag_wgs), 1, 1>>,
             <<l.config_buf, l.scene_buf, l.reduced_buf>>)
\* A scan dispatch with its last two buffers exchanged: it reads the buffer
\* it is to fill.
dispatch_pathtag_scan_exchanged(l) ==
    Dispatch("pathtag_scan", <<as_u32(l.pathtag_wgs), 1, 1>>,
             <<l.config_buf, l.scene_buf, l.tagmonoid_buf, l.reduced_buf>>)
dispatch_pathtag_scan(l) ==
    Dispatch("pathtag_scan", <<as_u32(l.pathtag_wgs), 1, 1>>,
             <<l.config_buf, l.scene_buf, l.reduced_buf, l.tagmonoid_buf>>)
clear_tiles(l) == Clear(l.tiles_buf)
dispatch_path_coarse(l) ==
    Dispatch("path_coarse", <<l.path_coarse_wgs, 1, 1>>,
             <<l.config_buf, l.scene_buf, l.tagmonoid_buf, l.tiles_buf, l.segments_buf>>)
dispatch_backdrop(l) ==
    Dispatch("backdrop", <<l.config.height_in_tiles, 1, 1>>,
             <<l.config_buf, l.tiles_buf>>)
\* A fine dispatch that binds the scene buffer where the shader has its
\* second read-only buffer, and so one proxy more than the shader registered.
dispatch_fine_with_scene(l) ==
    Dispatch("fine", <<l.config.width_in_tiles, l.config.height_in_tiles, 1>>,
             <<l.config_buf, l.scene_buf, l.tiles_buf, l.segments_buf, l.out_image>>)
dispatch_fine(l) ==
    Dispatch("fine", <<l.config.width_in_tiles, l.config.height_in_tiles, 1>>,
             <<l.config_buf, l.tiles_buf, l.segments_buf, l.out_image>>)

\* Recordings with the scan before the reduce, with the tile buffer cleared
\* after path_coarse, and without the dispatches that have nothing to do.
Commands_scan_first(l) ==
    <<upload_scene(l), upload_config(l), dispatch_pathtag_scan(l),
      dispatch_pathtag_reduce(l), clear_tiles(l), dispatch_path_coarse(l),
      dispatch_backdrop(l), dispatch_fine(l)>>
Commands_clearing_late(l) ==
    <<upload_scene(l), upload_config(l), dispatch_pathtag_reduce(l),
      dispatch_pathtag_scan(l), dispatch_path_coarse(l), clear_tiles(l),
      dispatch_backdrop(l), dispatch_fine(l)>>
Commands_skipping_empty(l) ==
    <<upload_scene(l), upload_config(l)>>
        \o (IF l.pathtag_wgs = 0 THEN << >>
            ELSE <<dispatch_pathtag_reduce(l), dispatch_pathtag_scan(l)>>)
        \o <<clear_tiles(l)>>
        \o (IF l.path_coarse_wgs = 0 THEN << >> ELSE <<dispatch_path_coarse(l)>>)
        \o <<dispatch_backdrop(l), dispatch_fine(l)>>

\* render(): the Recording, command by command in the order of the calls,
\* and the image proxy it returns.
Commands(l) ==
    <<upload_scene(l), upload_config(l), dispatch_pathtag_reduce(l),
      dispatch_pathtag_scan(l), clear_tiles(l), dispatch_path_coarse(l),
      dispatch_backdrop(l), dispatch_fine(l)>>

\* The number of proxies one call of render() creates.
ProxiesPerRender == 7

\* pub(crate) fn render(scene, shaders) -> (Recording, ImageProxy), called
\* for the scene at hand with the next fresh proxy ids.
render_scene ==
    /\ planned = << >>
    /\ Len(earlier) < MaxRuns
    /\ LET l == render_locals(scene_data, PROXY_IDS) IN
          planned' = <<[recording |-> Commands(l), out_image |-> l.out_image]>>
    /\ PROXY_IDS' = PROXY_IDS + ProxiesPerRender
    /\ UNCHANGED <<scene_data, elog, memory, eresult, earlier>>
    /\ UNCHANGED <<ipc, issued, gvars, hvars, svars, uvars>>

\* ------------------------------------------------------------------------
\* The execution engine (engine.rs): resolution and execution of a Recording
\* ------------------------------------------------------------------------

\* A proxy fits a binding kind.
Matches(kind, proxy) ==
    CASE kind = "Uniform" -> proxy.kind = "Buf" /\ proxy.uniform
      [] kind \in {"BufReadOnly", "Buffer"} -> proxy.kind = "Buf" /\ ~proxy.uniform
      [] kind = "Image(Rgba8)" -> proxy.kind = "Image" /\ proxy.format = "Rgba8"
      [] OTHER -> FALSE

\* A dispatch binds as many proxies as its shader registered kinds, each of
\* the kind registered at its position.
LayoutOk(shaders, cmd) ==
    cmd.op = "dispatch" =>
        /\ Len(cmd.bindings) = Len(shaders[cmd.shader])
        /\ \A i \in DOMAIN cmd.bindings : Matches(shaders[cmd.shader][i], cmd.bindings[i])

\* Resolution: every dispatch is validated before anything runs.
engine_resolve ==
    /\ planned # << >>
    /\ eresult = ""
    /\ eresult' = IF \A i \in DOMAIN planned[1].recording :
                        LayoutOk(init_shaders, planned[1].recording[i])
                  THEN "resolved" ELSE "binding_layout_error"
    /\ UNCHANGED <<scene_data, PROXY_IDS, planned, elog, memory, earlier>>
    /\ UNCHANGED <<ipc, issued, gvars, hvars, svars, uvars>>

\* What a proxy can hold: what its allocation held, zeros, uploaded bytes,
\* or what a shader wrote at one of its slots from the contents it was given.
Held(by, wg, slot, inputs) == [by |-> by, wg |-> wg, slot |-> slot, inputs |-> inputs]
Unwritten == Held("unwritten", << >>, 0, << >>)

\* What a proxy holds.
Content(mem, proxy) == IF proxy.id \in DOMAIN mem THEN mem[proxy.id] ELSE Unwritten

\* The slots of a dispatch that the shader writes.
Written(shaders, cmd) ==
    {i \in DOMAIN cmd.bindings : shaders[cmd.shader][i] \in {"Buffer", "Image(Rgba8)"}}

\* The effect of one command on the proxies' contents.  What a shader
\* computes is a function of the shader, the workgroup counts and the
\* contents of everything bound.
Execute(shaders, mem, cmd) ==
    LET ins == [i \in DOMAIN cmd.bindings |-> Content(mem, cmd.bindings[i])]
        out(i) == IF cmd.op = "dispatch"
                  THEN Held(cmd.shader, cmd.wg, i, ins)
                  ELSE IF cmd.op = "clear_all" THEN Held("clear_all", << >>, 0, << >>)
                  ELSE Held(cmd.op, << >>, 0, cmd.data)
        targets == IF cmd.op = "dispatch" THEN Written(shaders, cmd) ELSE {1}
        ids == {cmd.bindings[i].id : i \in targets}
        slot(id) == CHOOSE i \in targets : cmd.bindings[i].id = id IN
    [id \in DOMAIN mem \cup ids |-> IF id \in ids THEN out(slot(id)) ELSE mem[id]]

\* The engine runs the next command of the resolved Recording.
engine_step ==
    /\ eresult = "resolved"
    /\ Len(elog) < Len(planned[1].recording)
    /\ LET cmd == planned[1].recording[Len(elog) + 1] IN
          /\ elog' = Append(elog, cmd)
          /\ memory' = Execute(init_shaders, memory, cmd)
    /\ UNCHANGED <<scene_data, PROXY_IDS, planned, eresult, earlier>>
    /\ UNCHANGED <<ipc, issued, gvars, hvars, svars, uvars>>

\* The Recording ran to completion; the image is handed over, and the
\* proxies of the run are given up.
engine_finish ==
    /\ eresult = "resolved"
    /\ Len(elog) = Len(planned[1].recording)
    /\ earlier' = Append(earlier, [recording |-> planned[1].recording,
                                   out_image |-> planned[1].out_image,
                                   output |-> Content(memory, planned[1].out_image)])
    /\ planned' = << >>
    /\ elog' = << >>
    /\ eresult' = ""
    /\ memory' = << >>
    /\ UNCHANGED <<scene_data, PROXY_IDS>>
    /\ UNCHANGED <<ipc, issued, gvars, hvars, svars, uvars>>

PlannerStart ==
    /\ scene_data \in Scenes
    /\ PROXY_IDS = 0
    /\ planned = << >>
    /\ elog = << >>
    /\ memory = << >>
    /\ eresult = ""
    /\ earlier = << >>

InitPlanner == GalleryIdle /\ HostIdle /\ ScanIdle /\ ThreadsIdle /\ PlannerStart /\ UtilIdle /\ WaitIdle

NextPlanner ==
    \/ render_scene
    \/ engine_resolve
    \/ engine_step
    \/ engine_finish

SpecPlanner == InitPlanner /\ [][NextPlanner]_vars

\* ------------------------------------------------------------------------
\* Properties of the Planner's Recordings
\* ------------------------------------------------------------------------

\* What a command is: the shader of a dispatch, the operation and the name
\* of the buffer otherwise.
Kind(cmd) ==
    IF cmd.op = "dispatch" THEN <<"dispatch", cmd.shader>>
    ELSE <<cmd.op, cmd.bindings[1].name>>

Kinds(recording) == [i \in DOMAIN recording |-> Kind(recording[i])]

\* The command writes the proxy.
Writes(cmd, proxy) ==
    IF cmd.op = "dispatch"
    THEN \E i \in Written(init_shaders, cmd) : cmd.bindings[i].id = proxy.id
    ELSE cmd.bindings[1].id = proxy.id

\* C13: the Recording that render() returns lists upload of the scene,
\* upload of the configuration, reduce, scan, zero-fill of the tile buffer,
\* path-coarse, backdrop and fine, in this order; and what the engine has
\* run is at every moment an initial part of the Recording, in its order.
C13_RecordedOrderIsExecutionOrder ==
    planned # << >> =>
        /\ Kinds(planned[1].recording) =
              << <<"upload", "scene">>, <<"upload_uniform", "config">>,
                 <<"dispatch", "pathtag_reduce">>, <<"dispatch", "pathtag_scan">>,
                 <<"clear_all", "tiles_buf">>, <<"dispatch", "path_coarse">>,
                 <<"dispatch", "backdrop">>, <<"dispatch", "fine">> >>
        /\ Len(elog) <= Len(planned[1].recording)
        /\ \A i \in DOMAIN elog : elog[i] = planned[1].recording[i]

C13_Witness ==
    /\ planned # << >>
    /\ eresult = "resolved"
    /\ Len(elog) = 8
    /\ Kind(elog[8]) = <<"dispatch", "fine">>
    /\ elog[3].wg[1] >= 2

\* C14: for the scene without path tags and path data the Recording holds
\* the five dispatches and the zero-fill of the tile buffer, the returned
\* image proxy has the target width and height of the uploaded Config.
C14_EmptySceneRunsEveryStage ==
    (planned # << >> /\ scene_data.path_tags = << >> /\ scene_data.path_data = << >>) =>
        LET rec == planned[1].recording
            config == rec[2].data[1] IN
        /\ \A sh \in DOMAIN init_shaders :
              \E i \in DOMAIN rec : Kind(rec[i]) = <<"dispatch", sh>>
        /\ \E i \in DOMAIN rec : Kind(rec[i]) = <<"clear_all", "tiles_buf">>
        /\ planned[1].out_image.kind = "Image"
        /\ planned[1].out_image.width = config.target_width
        /\ planned[1].out_image.height = config.target_height
        /\ planned[1].out_image.width > 0 /\ planned[1].out_image.height > 0
        /\ Cardinality({i \in DOMAIN rec : rec[i].op = "dispatch"}) = 5

C14_Witness ==
    /\ planned # << >>
    /\ scene_data.path_tags = << >> /\ scene_data.path_data = << >>
    /\ planned[1].recording[1].data = << >>
    /\ planned[1].recording[3].wg = <<0, 1, 1>>
    /\ planned[1].recording[6].wg = <<0, 1, 1>>
    /\ planned[1].out_image.width = 1024

\* The smallest multiple of m that is at least n.
Padded(n, m) == CHOOSE k \in n .. n + m - 1 : k % m = 0

\* C26: the uploaded scene buffer holds the tag bytes from byte 0 on
\* (pathtag_base = 0), then zero bytes up to the smallest multiple of
\* 4 * PATHTAG_REDUCE_WG that is at least the number of tags, then the path
\* data; pathdata_base * 4 is that padded length; and the reduce and the scan
\* dispatch each have padded length / (4 * PATHTAG_REDUCE_WG) workgroups.
C26_TagStreamIsPadded ==
    planned # << >> =>
        LET rec == planned[1].recording
            n == Len(scene_data.path_tags)
            padded == Padded(n, 4 * PATHTAG_REDUCE_WG)
            scene == rec[1].data
            config == rec[2].data[1]
        IN  /\ rec[1].op = "upload" /\ rec[2].op = "upload_uniform"
            /\ config.pathtag_base = 0
            /\ Len(scene) = padded + Len(scene_data.path_data)
            /\ SubSeq(scene, 1, n) = scene_data.path_tags
            /\ \A i \in n + 1 .. padded : scene[i] = 0
            /\ SubSeq(scene, padded + 1, Len(scene)) = scene_data.path_data
            /\ config.pathdata_base * 4 = padded
            /\ Kind(rec[3]) = <<"dispatch", "pathtag_reduce">>
            /\ Kind(rec[4]) = <<"dispatch", "pathtag_scan">>
            /\ rec[3].wg = <<padded \div (4 * PATHTAG_REDUCE_WG), 1, 1>>
            /\ rec[4].wg = <<padded \div (4 * PATHTAG_REDUCE_WG), 1, 1>>

\* A scene of one tag more than one tile of the reduce, with path data.
C26_Witness ==
    /\ planned # << >>
    /\ Len(scene_data.path_tags) = 4 * PATHTAG_REDUCE_WG + 1
    /\ Len(scene_data.path_data) = 2
    /\ Len(planned[1].recording[1].data) = 8 * PATHTAG_REDUCE_WG + 2
    /\ planned[1].recording[2].data[1].pathdata_base = 2 * PATHTAG_REDUCE_WG
    /\ planned[1].recording[3].wg = <<2, 1, 1>>

\* C15: in the Recording the zero-fill of the tile-header buffer (the
\* buffer path-coarse binds at its first read-write slot) comes before the
\* path-coarse dispatch, and no command between the two writes that buffer.
C15_TilesClearedBeforeCoarse ==
    planned # << >> =>
        LET rec == planned[1].recording IN
        \A c \in DOMAIN rec :
            Kind(rec[c]) = <<"dispatch", "path_coarse">> =>
                \E z \in 1 .. c - 1 :
                    /\ rec[z].op = "clear_all"
                    /\ rec[z].bindings[1] = rec[c].bindings[4]
                    /\ rec[c].bindings[4].name = "tiles_buf"
                    /\ \A k \in z + 1 .. c - 1 : ~Writes(rec[k], rec[c].bindings[4])

C15_Witness ==
    /\ planned # << >>
    /\ Len(elog) >= 6
    /\ Kind(elog[6]) = <<"dispatch", "path_coarse">>
    /\ elog[6].wg[1] >= 2
    /\ elog[5].op = "clear_all"

\* C16: every dispatch of the Recording binds as many proxies as its shader
\* registered binding kinds, each proxy of the kind registered at its
\* position; the Recording has five dispatches; resolution never reports a
\* binding-layout error.
C16_BindingsMatchRegistry ==
    /\ eresult # "binding_layout_error"
    /\ planned # << >> =>
          LET rec == planned[1].recording IN
          /\ Cardinality({i \in DOMAIN rec : rec[i].op = "dispatch"}) = 5
          /\ \A i \in DOMAIN rec : LayoutOk(init_shaders, rec[i])

C16_Witness ==
    /\ planned # << >>
    /\ eresult = "resolved"
    /\ scene_data.path_tags # << >>
    /\ \E i \in DOMAIN planned[1].recording :
          /\ Kind(planned[1].recording[i]) = <<"dispatch", "fine">>
          /\ Len(planned[1].recording[i].bindings) = 4

\* The slots of a dispatch that the shader only reads.
ReadOnly(shaders, cmd) ==
    {i \in DOMAIN cmd.bindings : shaders[cmd.shader][i] \in {"Uniform", "BufReadOnly"}}

\* C32: in the Recording that render() returns, every buffer bound at a
\* read-only slot of a dispatch is written by a command recorded before the
\* dispatch: an upload, a zero-fill, or a dispatch that binds it at a
\* read-write slot.
C32_ReadBuffersAreWrittenEarlier ==
    planned # << >> =>
        LET rec == planned[1].recording IN
        \A c \in DOMAIN rec :
            rec[c].op = "dispatch" =>
                \A i \in ReadOnly(init_shaders, rec[c]) :
                    \E w \in 1 .. c - 1 :
                        /\ Writes(rec[w], rec[c].bindings[i])
                        /\ rec[w].op \in {"upload", "upload_uniform", "clear_all", "dispatch"}

\* A Recording for a scene with path tags: its fine dispatch reads the
\* segment buffer, which only the path-coarse dispatch writes, at its second
\* read-write slot; its scan reads what the reduce wrote.
C32_Witness ==
    /\ planned # << >>
    /\ scene_data.path_tags # << >>
    /\ LET rec == planned[1].recording IN
          /\ Kind(rec[8]) = <<"dispatch", "fine">>
          /\ 3 \in ReadOnly(init_shaders, rec[8])
          /\ rec[8].bindings[3].name = "segments_buf"
          /\ Writes(rec[6], rec[8].bindings[3])
          /\ \A w \in 1 .. 5 : ~Writes(rec[w], rec[8].bindings[3])
          /\ 3 \in ReadOnly(init_shaders, rec[4])
          /\ Writes(rec[3], rec[4].bindings[3])

\* A Recording with its proxies numbered from the first one it creates.
Renumbered(rec) ==
    LET base == rec[1].bindings[1].id IN
    [i \in DOMAIN rec |->
        [rec[i] EXCEPT !.bindings =
            [k \in DOMAIN rec[i].bindings |->
                [rec[i].bindings[k] EXCEPT !.id = rec[i].bindings[k].id - base]]]]

CacheDatas == {<< >>, <<1>>, <<1, 2>>, <<2, 1>>}

\* RenderContext::new_device is called at most this many times.
MaxDevices == 1

\* A path: the file name without its extension, and the extension.
\* cache_directory.join(cache_key): the key of an adapter has no extension.
cache_file == [stem |-> "wgpu_pipeline_cache", ext |-> ""]

\* A path that keeps its extension.
with_extension_kept(path, ext) == path

\* Path::with_extension.
with_extension(path, ext) == [path EXCEPT !.ext = ext]

Paths == {cache_file, with_extension(cache_file, "temp")}

\* What a path holds: nothing, or a file with its bytes.
Absent == [exists |-> FALSE, bytes |-> << >>]
File(bytes) == [exists |-> TRUE, bytes |-> bytes]

\* Option<T>.
None == << >>
Some(x) == <<x>>

\* std::fs::read: the bytes of the file; NotFound when there is no file; and
\* any other error of the operating system (io_error) whatever the path holds.
fs_read(fs, path, io_error) ==
    IF io_error THEN [ok |-> FALSE, kind |-> "Other", data |-> << >>]
    ELSE IF ~fs[path].exists THEN [ok |-> FALSE, kind |-> "NotFound", data |-> << >>]
    ELSE [ok |-> TRUE, kind |-> "", data |-> fs[path].bytes]

\* A DeviceHandle: its pipeline cache (with the data it was made from) and
\* the name of its cache file.
DeviceHandle(pipeline_cache, cache_filename) ==
    [pipeline_cache |-> pipeline_cache, cache_filename |-> cache_filename]

\* A new_device that gives up when the cache file cannot be read for another
\* reason than its absence.
pipeline_cache_of_strict(has_feature, directory, contents) ==
    IF has_feature /\ directory # None /\ (contents.ok \/ contents.kind = "NotFound")
    THEN IF contents.ok
         THEN <<Some([init |-> contents.data]), Some(cache_file)>>
         ELSE <<Some([init |-> << >>]), Some(cache_file)>>
    ELSE <<None, None>>

\* new_device, lines 147-185: (pipeline_cache, cache_filename).
pipeline_cache_of(has_feature, directory, contents) ==
    IF has_feature
    THEN IF directory # None
         THEN IF contents.ok
              THEN <<Some([init |-> contents.data]), Some(cache_file)>>
              ELSE <<Some([init |-> << >>]), Some(cache_file)>>
         ELSE <<None, None>>
    ELSE <<None, None>>

\* RenderContext::new_device.  The adapter or the device may be refused
\* (device_ok = FALSE: None is returned); the adapter has the PIPELINE_CACHE
\* feature or not; reading the cache file succeeds or fails.
new_device(device_ok, has_feature, io_error) ==
    /\ store = << >>
    /\ Len(devices) < MaxDevices
    /\ IF ~device_ok
       THEN /\ uret' = <<[op |-> "new_device", result |-> None, read |-> "",
                          failed |-> "", before |-> Absent, data |-> << >>]>>
            /\ UNCHANGED devices
       ELSE LET contents == fs_read(files, cache_file, io_error)
                pc == pipeline_cache_of(has_feature, pipeline_cache_directory, contents)
                tried == has_feature /\ pipeline_cache_directory # None
            IN  /\ devices' = Append(devices, DeviceHandle(pc[1], pc[2]))
                /\ uret' = <<[op |-> "new_device", result |-> Some(Len(devices)),
                              read |-> IF ~tried THEN "" ELSE IF contents.ok THEN "Ok"
                                       ELSE contents.kind,
                              failed |-> "", before |-> Absent, data |-> << >>]>>
    /\ UNCHANGED <<pipeline_cache_directory, files, store>>
    /\ UNCHANGED <<ipc, issued, pvars, gvars, hvars, svars, wvars>>

\* What store_pipeline_cache returned with, and after which failure.
Returned(failed, before, data) ==
    <<[op |-> "store", result |-> Some(0), read |-> "", failed |-> failed,
       before |-> before, data |-> data]>>

\* No open file.
NoFile == [stem |-> "", ext |-> ""]

\* The frame of a store_pipeline_cache call that is about to write: its
\* paths and data, where it is, the file it has open (by the path at which
\* the file is now) and its position in that file.  `before` is not in the
\* code: what the cache file held when the call began.
Frame(cache_filename, data, fs) ==
    [cache_filename |-> cache_filename,
     temp_filename |-> with_extension(cache_filename, "temp"),
     data |-> data,
     at |-> "write",
     before |-> fs[cache_filename],
     fd |-> NoFile,
     pos |-> 0]

\* The running calls without call c, which has returned.
Without(frames, c) == SubSeq(frames, 1, c - 1) \o SubSeq(frames, c + 1, Len(frames))

\* write(2) of one byte at position pos of a file: the byte replaces the one
\* there, or extends the file, after zeros where the file ended before pos.
write_at(bytes, pos, byte) ==
    [i \in 1 .. (IF Len(bytes) > pos THEN Len(bytes) ELSE pos + 1) |->
        IF i = pos + 1 THEN byte ELSE IF i <= Len(bytes) THEN bytes[i] ELSE 0]

\* DeviceHandle::store_pipeline_cache up to std::fs::write: the early
\* returns, and the data of the cache (got: None, or Some(data)).
store_pipeline_cache(d, got) ==
    /\ store = << >>
    /\ LET h == devices[d] IN
       IF h.pipeline_cache = None
       THEN /\ uret' = Returned("no_cache", files[cache_file], << >>)
            /\ UNCHANGED store
       ELSE IF h.cache_filename = None
       THEN /\ uret' = Returned("no_filename", files[cache_file], << >>)
            /\ UNCHANGED store
       ELSE IF got = None
       THEN /\ uret' = Returned("no_data", files[h.cache_filename[1]], << >>)
            /\ UNCHANGED store
       ELSE /\ store' = <<Frame(h.cache_filename[1], got[1], files)>>
            /\ uret' = << >>
    /\ UNCHANGED <<pipeline_cache_directory, files, devices>>
    /\ UNCHANGED <<ipc, issued, pvars, gvars, hvars, svars, wvars>>

\* std::fs::write of call c, first half (File::create): the file is
\* created, or emptied if it exists, and is open at position 0; when that
\* fails nothing changed, and the call logs and returns.
fs_write_create(c, fail) ==
    /\ c \in DOMAIN store
    /\ store[c].at = "write"
    /\ IF fail
       THEN /\ uret' = uret \o Returned("write", store[c].before, store[c].data)
            /\ store' = Without(store, c)
            /\ UNCHANGED files
       ELSE /\ files' = [files EXCEPT ![store[c].temp_filename] = File(<< >>)]
            /\ store' = [store EXCEPT ![c] =
                            [@ EXCEPT !.at = "writing", !.fd = store[c].temp_filename,
                                      !.pos = 0]]
            /\ UNCHANGED uret
    /\ UNCHANGED <<pipeline_cache_directory, devices>>
    /\ UNCHANGED <<ipc, issued, pvars, gvars, hvars, svars, wvars>>

\* std::fs::write of call c, second half (write_all): the bytes reach the
\* open file one after the other, each at the call's own position; a
\* failure leaves those written so far; after the last byte the write has
\* succeeded.  A file that was replaced at its path by a rename is no longer
\* reachable, and takes the bytes in vain.
fs_write_all(c, fail) ==
    /\ c \in DOMAIN store
    /\ store[c].at = "writing"
    /\ LET f == store[c] IN
           IF f.pos = Len(f.data)
           THEN /\ store' = [store EXCEPT ![c] = [@ EXCEPT !.at = "rename"]]
                /\ UNCHANGED <<files, uret>>
           ELSE IF fail
           THEN /\ uret' = uret \o Returned("write", f.before, f.data)
                /\ store' = Without(store, c)
                /\ UNCHANGED files
           ELSE /\ files' = IF f.fd = NoFile THEN files
                            ELSE [files EXCEPT ![f.fd] =
                                     File(write_at(@.bytes, f.pos, f.data[f.pos + 1]))]
                /\ store' = [store EXCEPT ![c] = [@ EXCEPT !.pos = @ + 1]]
                /\ UNCHANGED uret
    /\ UNCHANGED <<pipeline_cache_directory, devices>>
    /\ UNCHANGED <<ipc, issued, pvars, gvars, hvars, svars, wvars>>

\* std::fs::rename of call c: in one step the file is at the new path, in
\* place of what was there, and no longer at the old one; or it fails (also
\* because nothing is at the old path) and nothing changed.  Either way the
\* call returns.  A file that another call has open stays open: it is now at
\* the new path, or, if it was the one replaced, at none.
fs_rename(c, fail) ==
    /\ c \in DOMAIN store
    /\ store[c].at = "rename"
    /\ LET f == store[c]
           moved(k) == IF f.temp_filename = f.cache_filename THEN k
                       ELSE IF k.fd = f.temp_filename THEN [k EXCEPT !.fd = f.cache_filename]
                       ELSE IF k.fd = f.cache_filename THEN [k EXCEPT !.fd = NoFile]
                       ELSE k
           others == Without(store, c) IN
       IF fail \/ ~files[f.temp_filename].exists
       THEN /\ uret' = uret \o Returned("rename", f.before, f.data)
            /\ store' = others
            /\ UNCHANGED files
       ELSE /\ uret' = uret \o Returned("", f.before, f.data)
            /\ store' = [k \in DOMAIN others |-> moved(others[k])]
            /\ files' = IF f.temp_filename = f.cache_filename THEN files
                        ELSE [files EXCEPT ![f.cache_filename] = files[f.temp_filename],
                                           ![f.temp_filename] = Absent]
    /\ UNCHANGED <<pipeline_cache_directory, devices>>
    /\ UNCHANGED <<ipc, issued, pvars, gvars, hvars, svars, wvars>>

\* A RenderContext without devices, with or without a cache directory; the
\* cache file of the adapter is absent or holds what an earlier run stored.
UtilStart ==
    /\ pipeline_cache_directory \in {None, Some("dir")}
    /\ files \in {[p \in Paths |-> IF p = cache_file THEN c ELSE Absent] :
                     c \in {Absent} \cup {File(b) : b \in CacheDatas}}
    /\ devices = << >>
    /\ store = << >>
    /\ uret = << >>

InitUtil == GalleryIdle /\ HostIdle /\ ScanIdle /\ ThreadsIdle /\ PlannerIdle /\ WaitIdle /\ UtilStart

NextUtil ==
    \/ \E device_ok, has_feature, io_error \in BOOLEAN :
          new_device(device_ok, has_feature, io_error)
    \/ \E d \in DOMAIN devices, got \in {None} \cup {Some(b) : b \in CacheDatas} :
          store_pipeline_cache(d, got)
    \/ \E c \in DOMAIN store, fail \in BOOLEAN : fs_write_create(c, fail)
    \/ \E c \in DOMAIN store, fail \in BOOLEAN : fs_write_all(c, fail)
    \/ \E c \in DOMAIN store, fail \in BOOLEAN : fs_rename(c, fail)

SpecUtil == InitUtil /\ [][NextUtil]_vars

\* C21: while store_pipeline_cache runs and when it has returned, the cache
\* file is what it was before the call or holds exactly the data of the
\* cache; it changed only if neither the write nor the rename failed; the
\* rename is reached only with the whole data in the temporary file.
C21_StoreIsAtomic ==
    /\ store # << >> =>
          /\ files[store[1].cache_filename] = store[1].before
          /\ store[1].at = "rename" =>
                files[store[1].temp_filename] = File(store[1].data)
    /\ (uret # << >> /\ uret[1].op = "store" /\ store = << >>) =>
          /\ files[cache_file] \in {uret[1].before, File(uret[1].data)}
          /\ uret[1].failed # "" => files[cache_file] = uret[1].before
          /\ (uret[1].failed = "" /\ uret[1].result # None) =>
                files[cache_file] = File(uret[1].data)

C21_Witness ==
    /\ store # << >>
    /\ store[1].at = "writing"
    /\ store[1].before = File(<<2, 1>>)
    /\ store[1].data = <<1, 2>>
    /\ files[store[1].temp_filename] = File(<<1>>)
    /\ files[cache_file] = File(<<2, 1>>)

\* C22: when new_device could not read the cache file, because it is missing
\* or for any other reason, the device is created all the same, with an
\* empty pipeline cache and with the name of the cache file; and a
\* store_pipeline_cache whose write or rename failed has returned.
C22_CacheFileErrorsAreNotFatal ==
    uret # << >> =>
        /\ (uret[1].op = "new_device" /\ uret[1].read \in {"NotFound", "Other"}) =>
              /\ uret[1].result # None
              /\ uret[1].result[1] + 1 \in DOMAIN devices
              /\ devices[uret[1].result[1] + 1] =
                    DeviceHandle(Some([init |-> << >>]), Some(cache_file))
        /\ (uret[1].op = "store" /\ uret[1].failed \in {"write", "rename"}) =>
              /\ uret[1].result = Some(0)
              /\ store = << >>

C22_Witness ==
    /\ uret # << >>
    /\ uret[1].op = "new_device"
    /\ uret[1].read = "Other"
    /\ files[cache_file] = File(<<1, 2>>)
    /\ Len(devices) = 1
    /\ devices[1].pipeline_cache = Some([init |-> << >>])

\* The store_pipeline_cache calls that run at the same time for one adapter.
MaxStores == 2

\* A device with a pipeline cache and a cache file name, made by new_device
\* from what the cache file held; and MaxStores calls of
\* store_pipeline_cache for it, from as many threads, each with the data its
\* get_data() returned, each about to call std::fs::write.
StoresStart ==
    /\ pipeline_cache_directory = Some("dir")
    /\ files \in {[p \in Paths |-> IF p = cache_file THEN c ELSE Absent] :
                     c \in {Absent} \cup {File(b) : b \in CacheDatas}}
    /\ LET pc == pipeline_cache_of(TRUE, pipeline_cache_directory,
                                   fs_read(files, cache_file, FALSE)) IN
          devices = <<DeviceHandle(pc[1], pc[2])>>
    /\ store \in [1 .. MaxStores ->
                     {Frame(devices[1].cache_filename[1], data, files) : data \in CacheDatas}]
    /\ uret = << >>

InitStores == GalleryIdle /\ HostIdle /\ ScanIdle /\ ThreadsIdle /\ PlannerIdle /\ WaitIdle
                  /\ StoresStart

\* The steps of the calls, in any interleaving; no step fails for a reason
\* of its own.
NextStores ==
    \/ \E c \in DOMAIN store : fs_write_create(c, FALSE)
    \/ \E c \in DOMAIN store : fs_write_all(c, FALSE)
    \/ \E c \in DOMAIN store : fs_rename(c, FALSE)

SpecStores == InitStores /\ [][NextStores]_vars

\* C35: when store_pipeline_cache calls for the same adapter (the same cache
\* path, hence the same temporary path) have run at the same time and all
\* have returned, the cache path holds the complete data of one of the
\* calls, whatever the interleaving of their writes and renames.
C35_ConcurrentStoresLeaveWholeData ==
    (store = << >> /\ Len(uret) = MaxStores) =>
        \E i \in DOMAIN uret : files[cache_file] = File(uret[i].data)

\* ------------------------------------------------------------------------
\* Waiting for the device: block_on_wgpu (util.rs) as the headless example
\* calls it, and the wait of atomic_lookback_prefix's run()
\* ------------------------------------------------------------------------

\* The device polls that the mapping callback can need before it sends.
MaxWork == 5

\* A poll of the future or of the device, and what a device poll resolved.
Polled(what, done) == [poll |-> what, done |-> done]

\* The future receiver.receive() is ready once the callback has sent.
Ready == work = 0

\* block_on_wgpu, line 253: fut.as_mut().poll(&mut context); Ready breaks
\* out of the loop with the item, Pending goes on to the device poll.
future_poll ==
    /\ waiter = "headless"
    /\ wpc = "future"
    /\ wlog' = Append(wlog, Polled("future", 0))
    /\ wpc' = IF Ready THEN "returned" ELSE "device"
    /\ UNCHANGED <<waiter, work>>
    /\ UNCHANGED <<ipc, issued, pvars, gvars, hvars, svars, cvars>>

\* block_on_wgpu, line 255: device.poll(Maintain::Wait), which resolves
\* `done` of what the callback waits for, and back to the top of the loop.
device_poll(done) ==
    /\ waiter = "headless"
    /\ wpc = "device"
    /\ done \in 1 .. work
    /\ work' = work - done
    /\ wlog' = Append(wlog, Polled("device", done))
    /\ wpc' = "future"
    /\ UNCHANGED waiter
    /\ UNCHANGED <<ipc, issued, pvars, gvars, hvars, svars, cvars>>

\* run(), main.rs line 125: device.poll(MaintainBase::Wait), once.
run_device_poll(done) ==
    /\ waiter = "atomic_lookback_prefix"
    /\ wpc = "device"
    /\ done \in 0 .. work
    /\ done = 0 => work = 0
    /\ work' = work - done
    /\ wlog' = Append(wlog, Polled("device", done))
    /\ wpc' = "await"
    /\ UNCHANGED waiter
    /\ UNCHANGED <<ipc, issued, pvars, gvars, hvars, svars, cvars>>

\* run(), main.rs line 126: receiver.receive().await under
\* pollster::block_on: the future is polled; when it is pending the thread
\* is parked until the waker is called, which only the callback does.
run_await ==
    /\ waiter = "atomic_lookback_prefix"
    /\ wpc = "await"
    /\ wlog' = Append(wlog, Polled("future", 0))
    /\ wpc' = IF Ready THEN "received" ELSE "parked"
    /\ UNCHANGED <<waiter, work>>
    /\ UNCHANGED <<ipc, issued, pvars, gvars, hvars, svars, cvars>>

\* Either program has submitted its commands and called map_async.
WaitStart ==
    /\ waiter \in {"headless", "atomic_lookback_prefix"}
    /\ wpc = IF waiter = "headless" THEN "future" ELSE "device"
    /\ work \in 0 .. MaxWork
    /\ wlog = << >>

InitWait == GalleryIdle /\ HostIdle /\ ScanIdle /\ ThreadsIdle /\ PlannerIdle /\ UtilIdle
                /\ WaitStart

NextWait ==
    \/ future_poll
    \/ \E done \in 1 .. MaxWork : device_poll(done)
    \/ \E done \in 0 .. MaxWork : run_device_poll(done)
    \/ run_await

SpecWait == InitWait /\ [][NextWait]_vars

\* C23: a wait returns only with its future ready; between two polls of the
\* future there is one poll of the device; and no wait is left pending on
\* its future after the one device poll it made.
C23_WaitsPollRepeatedly ==
    /\ wpc \in {"returned", "received"} => Ready
    /\ \A i \in DOMAIN wlog :
          (i < Len(wlog) /\ wlog[i].poll = "future") => wlog[i + 1].poll = "device"
    /\ wpc # "parked"

====
